---- MODULE Spec2Model ----
(***************************************************************************)
(* Model of the STAR answer refinement workflow of refiner_agent:          *)
(* STAROrchestrator._run_async_impl (orchestrator.py) driving the          *)
(* initialize / input-collector / generator / critique / refiner /         *)
(* output-retriever sub-agents over one ADK session state.                 *)
(*                                                                         *)
(* Ratings are kept in tenths (4.6 is 46).  A critique text is a sequence  *)
(* of tokens: the triple-backquote fence, the tag json, another tag, a    *)
(* newline, and one token per JSON document body.                          *)
(***************************************************************************)
EXTENDS Integers, Sequences, FiniteSets, TLC

\* ------------------------------------------------------------------ bounds
\* largest configured max_iterations explored
MaxIterationsCap == 3

\* ------------------------------------------------- python dict operations
NoValue == "None"

EmptyDict == [k \in {} |-> NoValue]

Get(d, k, default) == IF k \in DOMAIN d THEN d[k] ELSE default

\* dict.update(): the keys of upd overwrite those of d
DictUpdate(d, upd) == upd @@ d

\* ------------------------------------------------------- critique texts
FENCE == "<fence>"
JSONTAG == "json"
OTHERTAG == "JSON"
NL == "<newline>"

\* JSON document bodies the critique agent may produce
ObjectDocs == {"{rating:3.0}", "{rating:4.6}", "{rating:4.8}", "{rating:7.0}", "{rating:str(4.8)}", "{rating:str(high)}", "{suggestions:[]}"}
ArrayDocs == {"[1]"}
MalformedDocs == {"{rating:4.2,suggestions:[oops"}
WellFormedDocs == ObjectDocs \cup ArrayDocs
Docs == WellFormedDocs \cup MalformedDocs

\* the value under "rating" in an object document
DocRatingValue(doc) ==
    CASE doc = "{rating:3.0}" -> [kind |-> "number", val |-> 30]
      [] doc = "{rating:4.6}" -> [kind |-> "number", val |-> 46]
      [] doc = "{rating:4.8}" -> [kind |-> "number", val |-> 48]
      [] doc = "{rating:7.0}" -> [kind |-> "number", val |-> 70]
      [] doc = "{rating:str(4.8)}" -> [kind |-> "numeric_string", val |-> 48]
      [] doc = "{rating:str(high)}" -> [kind |-> "text", val |-> 0]
      [] OTHER -> [kind |-> "missing", val |-> 0]

IsSpace(tok) == tok = NL

RECURSIVE LStrip(_)
LStrip(s) == IF s # <<>> /\ IsSpace(Head(s)) THEN LStrip(Tail(s)) ELSE s

RECURSIVE RStrip(_)
RStrip(s) ==
    IF s # <<>> /\ IsSpace(s[Len(s)]) THEN RStrip(SubSeq(s, 1, Len(s) - 1)) ELSE s

\* str.strip()
Strip(s) == RStrip(LStrip(s))

StartsWith(s, p) == Len(s) >= Len(p) /\ SubSeq(s, 1, Len(p)) = p

EndsWith(s, p) == Len(s) >= Len(p) /\ SubSeq(s, Len(s) - Len(p) + 1, Len(s)) = p

NewlinePositions(s) == {i \in 1..Len(s) : s[i] = NL}

Minimum(S) == CHOOSE x \in S : \A y \in S : x <= y

Maximum(S) == CHOOSE x \in S : \A y \in S : x >= y

\* json.loads: surrounding whitespace is ignored, exactly one well-formed
\* document must remain
JsonLoads(s) ==
    LET t == Strip(s)
    IN IF Len(t) = 1 /\ t[1] \in WellFormedDocs
       THEN [ok |-> TRUE, doc |-> t[1]]
       ELSE [ok |-> FALSE, doc |-> NoValue]

\* the ways the critique agent wraps a document
Wrappings(doc) ==
    { <<doc>>,
      <<FENCE, JSONTAG, NL, doc, NL, FENCE>>,
      <<FENCE, JSONTAG, NL, doc, NL>>,
      <<FENCE, JSONTAG, doc, FENCE>>,
      <<FENCE, OTHERTAG, NL, doc, NL, FENCE>> }

StrFeedback(toks) == [type |-> "str", toks |-> toks, doc |-> NoValue]

DictFeedback(doc) == [type |-> "dict", toks |-> <<>>, doc |-> doc]

NoFeedback == [type |-> "none", toks |-> <<>>, doc |-> NoValue]

\* what the critique agent can leave under critique_feedback
CritiqueOutputs ==
    { StrFeedback(t) : t \in UNION { Wrappings(d) : d \in Docs } }
    \cup { DictFeedback(d) : d \in {"{rating:4.8}", "{rating:3.0}", "{rating:str(high)}", "{suggestions:[]}"} }
    \cup { NoFeedback }

\* ------------------------------------- orchestrator: critique processing
\* first look at critique_feedback (debug block): the text after the first
\* newline when it starts with a fence (IndexError without a newline), the
\* text before the last newline when it ends with a fence, then json.loads;
\* every failure gives {}
DebugParsed(fb) ==
    IF fb.type # "str" THEN [ok |-> FALSE, doc |-> NoValue]
    ELSE LET cleaned == Strip(fb.toks)
             fenced == StartsWith(cleaned, <<FENCE>>)
             indexError == fenced /\ NewlinePositions(cleaned) = {}
             afterFirst ==
                 IF fenced /\ ~indexError
                 THEN SubSeq(cleaned, Minimum(NewlinePositions(cleaned)) + 1, Len(cleaned))
                 ELSE cleaned
             beforeLast ==
                 IF EndsWith(afterFirst, <<FENCE>>) /\ NewlinePositions(afterFirst) # {}
                 THEN SubSeq(afterFirst, 1, Maximum(NewlinePositions(afterFirst)) - 1)
                 ELSE afterFirst
         IN IF indexError THEN [ok |-> FALSE, doc |-> NoValue] ELSE JsonLoads(beforeLast)

\* critique_feedback.get('rating', ...) on a truthy value that is not a dict
\* raises AttributeError outside any try
DebugBlockRaises(fb) == DebugParsed(fb).ok /\ DebugParsed(fb).doc \notin ObjectDocs

\* fence stripping before the parse that feeds the ledger
ProcessedStr(toks) ==
    LET stripped == Strip(toks)
        noLead ==
            IF StartsWith(stripped, <<FENCE, JSONTAG>>) THEN SubSeq(stripped, 3, Len(stripped))
            ELSE IF StartsWith(stripped, <<FENCE>>) THEN SubSeq(stripped, 2, Len(stripped))
            ELSE stripped
        noTrail ==
            IF EndsWith(noLead, <<FENCE>>) THEN SubSeq(noLead, 1, Len(noLead) - 1) ELSE noLead
    IN Strip(noTrail)

\* float(rating_value) with the ValueError/TypeError fallback to 0.0
RatingFromValue(rv) ==
    IF rv.kind \in {"number", "numeric_string"} THEN rv.val ELSE 0

CritiqueDetails(kind, doc) == [kind |-> kind, doc |-> doc]

\* variant: a critique text that json.loads rejects is not caught
ParseCritiqueDecodeErrorEscapes(fb) ==
    IF fb.type = "str" THEN
        LET parsed == JsonLoads(ProcessedStr(fb.toks))
        IN IF ~parsed.ok
           THEN [rating |-> 0, critique |-> CritiqueDetails("JSONDecodeError", NoValue), raises |-> TRUE]
           ELSE IF parsed.doc \notin ObjectDocs
           THEN [rating |-> 0, critique |-> CritiqueDetails("Unexpected error", NoValue), raises |-> FALSE]
           ELSE [rating |-> RatingFromValue(DocRatingValue(parsed.doc)),
                 critique |-> CritiqueDetails("parsed", parsed.doc), raises |-> FALSE]
    ELSE IF fb.type = "dict" THEN
        [rating |-> DocRatingValue(fb.doc).val,
         critique |-> CritiqueDetails("dict", fb.doc),
         raises |-> DocRatingValue(fb.doc).kind = "text"]
    ELSE [rating |-> 0, critique |-> CritiqueDetails("Critique was not string or dict", NoValue),
          raises |-> FALSE]

\* rating and critique_details_for_history taken from critique_feedback;
\* raises is the uncaught float() failure of the dict branch
ParseCritique(fb) ==
    IF fb.type = "str" THEN
        LET parsed == JsonLoads(ProcessedStr(fb.toks))
        IN IF ~parsed.ok
           THEN [rating |-> 0, critique |-> CritiqueDetails("JSONDecodeError", NoValue), raises |-> FALSE]
           ELSE IF parsed.doc \notin ObjectDocs
           THEN [rating |-> 0, critique |-> CritiqueDetails("Unexpected error", NoValue), raises |-> FALSE]
           ELSE [rating |-> RatingFromValue(DocRatingValue(parsed.doc)),
                 critique |-> CritiqueDetails("parsed", parsed.doc), raises |-> FALSE]
    ELSE IF fb.type = "dict" THEN
        [rating |-> DocRatingValue(fb.doc).val,
         critique |-> CritiqueDetails("dict", fb.doc),
         raises |-> DocRatingValue(fb.doc).kind = "text"]
    ELSE [rating |-> 0, critique |-> CritiqueDetails("Critique was not string or dict", NoValue),
          raises |-> FALSE]

IterationEntry(iteration_number, answer, critique, rating) ==
    [iteration_number |-> iteration_number, answer |-> answer,
     critique |-> critique, rating |-> rating]

\* variant: a rating equal to the threshold does not stop the run
ThresholdMetStrict(rating, threshold) == rating > threshold

\* if threshold_check_rating >= self.rating_threshold
ThresholdMet(rating, threshold) == rating >= threshold

\* variant: the loop stops one pass early
LoopContinuesOneShort(iter, maxIter) == iter < maxIter

\* while iteration <= self.max_iterations
LoopContinues(iter, maxIter) == iter <= maxIter

\* if iteration > self.max_iterations
ReachedMaxIterations(iter, maxIter) == iter > maxIter

\* variant: the question is not checked
InputsMissingIgnoresQuestion(st) ==
    \/ Get(st, "role", "") = ""
    \/ Get(st, "industry", "") = ""

\* not state.get("role") or not state.get("industry") or not state.get("question")
InputsMissing(st) ==
    \/ Get(st, "role", "") = ""
    \/ Get(st, "industry", "") = ""
    \/ Get(st, "question", "") = ""

MissingInputsMessage == <<"Missing required inputs: role, industry, or question">>

\* variant: the message does not include the exception text
GeneratorFailedMessageNoCause(e) == <<"Star generator failed: ", "unknown error">>


GeneratorFailedMessage(e) == <<"Star generator failed: ", e>>

CritiqueFailedMessage(e) == <<"Star critique failed: ", e>>

RefinerFailedMessage(e) == <<"Star refiner failed: ", e>>

\* ------------------------------------------------ answers and iterations
\* the text the generator (n = 1) or the refiner (n > 1) leaves under
\* current_answer
GeneratedAnswer(n) == "answer " \o ToString(n)

\* an entry of state "iterations"
IterationsEntry(iteration_id, answer, critique, rating) ==
    [iteration |-> iteration_id, answer |-> answer, critique |-> critique, rating |-> rating]

\* a rating as the tools hold it: a float, a value that is not a number, or
\* None
NumberRating(v) == [kind |-> "number", val |-> v]

TextRating == [kind |-> "text", val |-> 0]

NoRating == [kind |-> "none", val |-> 0]

\* "critique": None
NoCritique == [kind |-> "none", rating |-> NoRating]

\* the critique stored in an entry: a validated Critique model ("model"), the
\* dict json.loads gave ("dict"), or the error placeholder ("fallback")
StoredCritique(kind, rating) == [kind |-> kind, rating |-> rating]

\* the first entry of iterations numbered n, 0 when there is none
IndexOfIteration(iterations, n) ==
    LET found == {i \in 1..Len(iterations) : iterations[i].iteration = n}
    IN IF found = {} THEN 0 ELSE Minimum(found)

\* the scale of the Critique and CritiqueDetails schemas: 0.0 to 5.0
RatingScale == 0..50

\* ---------------------------- tools.retrieve_final_output_from_state
\* error_message None
NoMessage == <<>>

NoAnswerForIteration == "No answer data available for this iteration"

NoFinalAnswer == "No final answer could be retrieved"

\* request_details rebuilt from the individual fields
RequestDetails(st) == [k \in {"role", "industry", "question"} |-> Get(st, k, "")]

\* tool_context.state.get("current_answer") when truthy, else the fallback
CurrentAnswerOr(st, fallback) ==
    IF Get(st, "current_answer", NoValue) \in {NoValue, ""}
    THEN fallback
    ELSE st["current_answer"]

\* variant: every record carries the answer under current_answer
IterationRecordCurrentAnswer(st, it) ==
    [iteration_id |-> it.iteration,
     star_response |-> CurrentAnswerOr(st, NoAnswerForIteration),
     critique_details |-> [rating |-> IF it.critique.kind = "none" THEN NumberRating(0)
                                      ELSE it.critique.rating]]

\* lines 425-507: the interaction_history record of one iteration
IterationRecord(st, it) ==
    [iteration_id |-> it.iteration,
     star_response |-> IF it.answer = NoValue
                       THEN CurrentAnswerOr(st, NoAnswerForIteration)
                       ELSE it.answer,
     critique_details |-> [rating |-> IF it.critique.kind = "none" THEN NumberRating(0)
                                      ELSE it.critique.rating]]

\* list.sort(key=iteration_id): stable insertion of one record
RECURSIVE InsertByIterationId(_, _)
InsertByIterationId(sorted, rec) ==
    IF sorted = <<>> THEN <<rec>>
    ELSE IF sorted[Len(sorted)].iteration_id <= rec.iteration_id THEN Append(sorted, rec)
    ELSE Append(InsertByIterationId(SubSeq(sorted, 1, Len(sorted) - 1), rec), sorted[Len(sorted)])

RECURSIVE SortByIterationId(_)
SortByIterationId(recs) ==
    IF recs = <<>> THEN <<>>
    ELSE InsertByIterationId(SortByIterationId(SubSeq(recs, 1, Len(recs) - 1)), recs[Len(recs)])

\* lines 415-418: the iterations of state, else those of the legacy package
IterationsForOutput(st) ==
    IF Get(st, "iterations", <<>>) = <<>> /\ "final_agent_output_package" \in DOMAIN st
    THEN st["final_agent_output_package"].all_iterations
    ELSE Get(st, "iterations", <<>>)

\* lines 423-510
InteractionHistory(st) ==
    SortByIterationId([i \in 1..Len(IterationsForOutput(st)) |->
                          IterationRecord(st, IterationsForOutput(st)[i])])

\* lines 512-544: the final answer is that of the legacy package, else that
\* of the entry of iterations numbered highest_rated_iteration, else
\* current_answer, else a placeholder
FinalStarAnswer(st) ==
    LET iterations == IterationsForOutput(st)
        highest_rated_iteration == Get(st, "highest_rated_iteration", 0)
        matches == {i \in 1..Len(iterations) : iterations[i].iteration = highest_rated_iteration}
    IN IF "final_agent_output_package" \in DOMAIN st
       THEN st["final_agent_output_package"].final_star_answer
       ELSE IF matches # {} THEN iterations[Minimum(matches)].answer
       ELSE CurrentAnswerOr(st, NoFinalAnswer)

\* ------------------------------------ tools: the history-keeping tools
\* tools._clean_json_string: a leading fence (with or without the json tag)
\* and a trailing fence are removed, each followed by strip()
CleanJsonString(toks) ==
    LET noLead ==
            IF StartsWith(toks, <<FENCE, JSONTAG>>) THEN Strip(SubSeq(toks, 3, Len(toks)))
            ELSE IF StartsWith(toks, <<FENCE>>) THEN Strip(SubSeq(toks, 2, Len(toks)))
            ELSE toks
    IN IF EndsWith(noLead, <<FENCE>>) THEN Strip(SubSeq(noLead, 1, Len(noLead) - 1))
       ELSE noLead

\* Critique.model_validate_json accepts an object whose rating is absent or
\* a number within the scale
CritiqueModelAccepts(doc) ==
    /\ doc \in ObjectDocs
    /\ \/ DocRatingValue(doc).kind = "missing"
       \/ /\ DocRatingValue(doc).kind \in {"number", "numeric_string"}
          /\ DocRatingValue(doc).val \in RatingScale

\* append_critique, lines 866-904 and 927-956: the critique text becomes a
\* Critique model, else the dict json.loads gives (its rating taken as it
\* is), else the error placeholder rated 0.0
ToolParsedCritique(toks) ==
    LET parsed == JsonLoads(CleanJsonString(toks))
    IN IF parsed.ok /\ CritiqueModelAccepts(parsed.doc)
       THEN StoredCritique("model", NumberRating(DocRatingValue(parsed.doc).val))
       ELSE IF parsed.ok /\ parsed.doc \in ObjectDocs
       THEN StoredCritique("dict", IF DocRatingValue(parsed.doc).kind = "number"
                                   THEN NumberRating(DocRatingValue(parsed.doc).val)
                                   ELSE TextRating)
       ELSE StoredCritique("fallback", NumberRating(0))

\* the history list and the iterations list are made to exist
WithHistoryLists(st, history_list_key) ==
    DictUpdate(st, [k \in ({history_list_key, "iterations"} \ DOMAIN st) |-> <<>>])

CallerNames == {"star_generator_with_history", "star_refiner_with_history", "run_async"}

\* variant: every answer is given a new entry
AppendStarResponseAlwaysNew(st, caller) ==
    LET json_string == Get(st, "current_answer", NoValue)
        base == WithHistoryLists(st, "star_responses_history")
        iterations == Get(st, "iterations", <<>>)
        current_iteration ==
            CASE caller = "star_generator_with_history" -> 1
              [] caller = "star_refiner_with_history" ->
                     Maximum({iterations[i].iteration : i \in 1..Len(iterations)} \cup {0}) + 1
              [] OTHER -> Get(st, "current_iteration", 0) + 1
        iterations_list ==
            Append(iterations,
                   IterationsEntry(current_iteration, json_string, NoCritique, NoRating))
    IN IF json_string = NoValue THEN base
       ELSE DictUpdate(base,
                [k \in {"star_responses_history", "current_iteration", "iterations"} |->
                   CASE k = "star_responses_history" ->
                            Append(base["star_responses_history"], json_string)
                     [] k = "current_iteration" -> current_iteration
                     [] OTHER -> iterations_list])

\* tools.append_star_response: the answer under current_answer is appended
\* to star_responses_history and becomes the answer of the entry numbered
\* current_iteration, which is created when it does not exist
AppendStarResponse(st, caller) ==
    LET json_string == Get(st, "current_answer", NoValue)
        base == WithHistoryLists(st, "star_responses_history")
        iterations == Get(st, "iterations", <<>>)
        current_iteration ==
            CASE caller = "star_generator_with_history" -> 1
              [] caller = "star_refiner_with_history" ->
                     Maximum({iterations[i].iteration : i \in 1..Len(iterations)} \cup {0}) + 1
              [] OTHER -> Get(st, "current_iteration", 0) + 1
        existing_index == IndexOfIteration(iterations, current_iteration)
        iterations_list ==
            IF existing_index # 0
            THEN [iterations EXCEPT ![existing_index].answer = json_string]
            ELSE Append(iterations,
                        IterationsEntry(current_iteration, json_string, NoCritique, NoRating))
    IN IF json_string = NoValue THEN base
       ELSE DictUpdate(base,
                [k \in {"star_responses_history", "current_iteration", "iterations"} |->
                   CASE k = "star_responses_history" ->
                            Append(base["star_responses_history"], json_string)
                     [] k = "current_iteration" -> current_iteration
                     [] OTHER -> iterations_list])

\* tools.append_critique: the critique under critique_feedback is appended
\* to critiques_history, attached to the entry numbered current_iteration
\* (created when missing and current_iteration > 0), and takes over
\* highest_rating when its rating is strictly greater (lines 1041-1047).
\* raises: the comparison of a text rating with a float is not caught; the
\* entry it had already changed in place stays changed.
AppendCritique(st) ==
    LET fb == Get(st, "critique_feedback", NoFeedback)
        base == WithHistoryLists(st, "critiques_history")
        current_iteration == Get(st, "current_iteration", 0)
        iterations == Get(st, "iterations", <<>>)
        critique == ToolParsedCritique(fb.toks)
        found_index == IndexOfIteration(iterations, current_iteration)
        iterations_list ==
            IF found_index # 0
            THEN [iterations EXCEPT ![found_index].critique = critique,
                                    ![found_index].rating = critique.rating]
            ELSE IF current_iteration > 0
            THEN Append(iterations,
                        IterationsEntry(current_iteration, CurrentAnswerOr(st, NoValue),
                                        critique, critique.rating))
            ELSE iterations
        rating == IF found_index # 0 \/ current_iteration > 0 THEN critique.rating ELSE NoRating
        takes_over == rating.kind = "number" /\ rating.val > Get(st, "highest_rating", 0)
        written == {"critiques_history", "iterations"}
                       \cup (IF takes_over THEN {"highest_rating", "highest_rated_iteration"} ELSE {})
    IN IF fb.type = "none" THEN [raises |-> FALSE, state |-> base]
       ELSE IF fb.type = "dict"
       THEN [raises |-> FALSE,
             state |-> [base EXCEPT !["critiques_history"] =
                                        Append(@, StoredCritique("dict", NoRating))]]
       ELSE IF rating.kind = "text"
       THEN [raises |-> TRUE,
             state |-> IF found_index # 0 THEN [st EXCEPT !["iterations"] = iterations_list]
                       ELSE st]
       ELSE [raises |-> FALSE,
             state |-> DictUpdate(base,
                 [k \in written |->
                    CASE k = "critiques_history" -> Append(base["critiques_history"], critique)
                      [] k = "iterations" -> iterations_list
                      [] k = "highest_rating" -> rating.val
                      [] OTHER -> current_iteration])]

\* the rating the finalizing tool compares with, line 141 (4.6)
FinalizeThreshold == 46

\* tools.finalize_agent_output: final_status from the hard-coded 4.6, a
\* placeholder iteration 1 when no iteration was tracked, highest_rating
\* (a text rating met there raises before anything is written),
\* taken by the last entry whose rating exceeds the value in state (lines
\* 293-298), and the legacy package (emptied when its validation fails)
FinalizeAgentOutput(st, rating) ==
    LET iterations == Get(st, "iterations", <<>>)
        final_star_answer == CurrentAnswerOr(st, "Placeholder for unexpected answer type")
        placeholder ==
            <<IterationsEntry(1, final_star_answer,
                              StoredCritique("dict", NumberRating(rating)), NumberRating(rating))>>
        rated == {i \in 1..Len(iterations) : iterations[i].critique.kind # "none"}
        exceeding == {i \in rated : /\ iterations[i].critique.rating.kind = "number"
                                    /\ iterations[i].critique.rating.val > Get(st, "highest_rating", 0)}
        iterations_list == IF iterations = <<>> THEN placeholder ELSE iterations
        highest_rated_iteration ==
            IF iterations = <<>> THEN 1
            ELSE IF exceeding # {} THEN iterations[Maximum(exceeding)].iteration
            ELSE Get(st, "highest_rated_iteration", 0)
        valid == /\ rating \in RatingScale
                 /\ \A i \in 1..Len(iterations_list) :
                        /\ iterations_list[i].critique.kind # "none"
                        /\ iterations_list[i].critique.rating.kind = "number"
                        /\ iterations_list[i].critique.rating.val \in RatingScale
        package ==
            [final_star_answer |-> final_star_answer,
             all_iterations |-> IF valid THEN iterations_list ELSE <<>>,
             highest_rated_iteration |-> IF valid THEN highest_rated_iteration ELSE 0,
             final_rating |-> rating]
        written == {"final_status", "final_rating", "final_agent_output_package"}
                       \cup ({"request_details"} \ DOMAIN st)
                       \cup (IF iterations = <<>> THEN {"iterations", "highest_rated_iteration"} ELSE {})
                       \cup (IF exceeding # {} THEN {"highest_rating", "highest_rated_iteration"} ELSE {})
    IN IF \E i \in rated : iterations[i].critique.rating.kind = "text"
       THEN [raises |-> TRUE, state |-> st]
       ELSE [raises |-> FALSE,
             state |-> DictUpdate(st,
                 [k \in written |->
                    CASE k = "final_status" ->
                            IF rating >= FinalizeThreshold THEN "COMPLETED_HIGH_RATING"
                            ELSE "COMPLETED_MAX_ITERATIONS"
                      [] k = "final_rating" -> rating
                      [] k = "request_details" -> RequestDetails(st)
                      [] k = "final_agent_output_package" -> package
                      [] k = "iterations" -> iterations_list
                      [] k = "highest_rating" -> iterations[Maximum(exceeding)].critique.rating.val
                      [] OTHER -> highest_rated_iteration])]

\* lines 546-593: the enhanced output; when the schema rejects it (a rating
\* outside the scale) the same data is returned as a plain dict whose
\* error_message is never empty
RetrieveFinalOutputFromState(st) ==
    LET history == InteractionHistory(st)
        valid == \A i \in 1..Len(history) :
                     /\ history[i].critique_details.rating.kind = "number"
                     /\ history[i].critique_details.rating.val \in RatingScale
        message == Get(st, "error_message", NoMessage)
    IN [request_details |-> RequestDetails(st),
        interaction_history |-> history,
        final_status |-> Get(st, "final_status", "COMPLETED_MAX_ITERATIONS"),
        error_message |-> IF valid \/ message # NoMessage THEN message
                          ELSE <<"Error constructing enhanced output">>]

\* ------------------------------------------------------------------ state
VARIABLES
    pc,               \* the sub-agent call the run is suspended in
    state,            \* ctx.session.state
    state_delta,      \* ctx.actions.state_delta
    has_state_delta,  \* hasattr(ctx, 'actions') and hasattr(ctx.actions, 'state_delta')
    rating_threshold, \* self.rating_threshold
    max_iterations,   \* self.max_iterations
    iteration,        \* local variable iteration
    final_rating,     \* local variable final_rating
    calls,            \* completed sub-agent calls, in order
    final_status_writes \* assignments of a terminal final_status made so far

vars == <<pc, state, state_delta, has_state_delta, rating_threshold,
          max_iterations, iteration, final_rating, calls, final_status_writes>>

ErrorStatuses == {"ERROR_INPUT_VALIDATION", "ERROR_AGENT_PROCESSING"}

TerminalStatuses == {"COMPLETED_HIGH_RATING", "COMPLETED_MAX_ITERATIONS"} \cup ErrorStatuses

\* 1 when the update assigns a terminal final_status
TerminalStatusWrites(upd) ==
    IF "final_status" \in DOMAIN upd /\ upd["final_status"] \in TerminalStatuses THEN 1 ELSE 0

RatingThresholds == {40, 46}

ExceptionTexts == {"timeout", "quota exceeded"}

InputValues == {"", "Product Manager"}

\* the two ways the orchestrator writes: replace the pending state_delta, or
\* write session state directly
Update(ctx, upd) ==
    IF has_state_delta
    THEN [ctx EXCEPT !.state_delta = upd,
                     !.final_status_writes = @ + TerminalStatusWrites(upd)]
    ELSE [ctx EXCEPT !.state = DictUpdate(@, upd),
                     !.final_status_writes = @ + TerminalStatusWrites(upd)]

\* ctx.session.state[...] = ...
DirectWrite(ctx, upd) == [ctx EXCEPT !.state = DictUpdate(@, upd)]

\* state_delta (when available) and session state both receive the value
WriteThrough(ctx, upd) == DirectWrite(Update(ctx, upd), upd)

Ctx == [state |-> state, state_delta |-> state_delta,
        final_status_writes |-> final_status_writes]

SetCtx(ctx) ==
    /\ state' = ctx.state
    /\ state_delta' = ctx.state_delta
    /\ final_status_writes' = ctx.final_status_writes

\* one completed sub-agent call: which agent, "returned" or "raised", and the
\* text of the exception raised
Call(agent, outcome, error) == [agent |-> agent, outcome |-> outcome, error |-> error]

\* variant: the ledger of an earlier request is kept
ResetHistoryKeepsLedger(ctx) == ctx

\* full_iteration_history is emptied at the start of every run
ResetHistory(ctx) == WriteThrough(ctx, "full_iteration_history" :> <<>>)

\* variant: the new entry is put in front of the earlier ones
AppendEntryAtFront(history, entry) == <<entry>> \o history

\* new_history_list = current_history_list + [iteration_entry]
AppendEntry(history, entry) == Append(history, entry)

\* a ledger left in the session by an earlier request
PreviousLedger ==
    << IterationEntry(1, NoValue, CritiqueDetails("parsed", "{rating:3.0}"), 30),
       IterationEntry(2, NoValue, CritiqueDetails("parsed", "{rating:4.8}"), 48) >>

\* what earlier requests can have left in the session: nothing (a new
\* session), an empty ledger, the ledger of the last one, or that ledger
\* with the highest_rating written next to it and the error_message of a
\* request that failed before it
SessionRemnants ==
    { EmptyDict,
      "full_iteration_history" :> <<>>,
      "full_iteration_history" :> PreviousLedger,
      ("full_iteration_history" :> PreviousLedger) @@ ("highest_rating" :> 48)
          @@ ("error_message" :> GeneratorFailedMessage("timeout")) }

\* the remnants explored on each update path: highest_rating and
\* error_message reach session state only by direct writes, which put
\* highest_rating next to the ledger
RemnantPossible(st, delta) ==
    IF delta
    THEN "highest_rating" \notin DOMAIN st /\ "error_message" \notin DOMAIN st
    ELSE "full_iteration_history" \in DOMAIN st => "highest_rating" \in DOMAIN st

\* session state when the run starts: the request fields the caller seeded
\* (each possibly absent or empty), final_status IN_PROGRESS, and possibly
\* what an earlier request on the same session left
InitialStates ==
    { DictUpdate(DictUpdate(req, led), "final_status" :> "IN_PROGRESS") :
        req \in { [k \in K |-> v] : K \in {{}, {"role", "industry", "question"}}, v \in InputValues }
                \cup { ("role" :> "") @@ [k \in {"industry", "question"} |-> "Product Manager"],
                       ("question" :> "") @@ [k \in {"role", "industry"} |-> "Product Manager"],
                       [k \in {"role", "question"} |-> "Product Manager"] },
        led \in SessionRemnants }

Init ==
    /\ pc = "not_started"
    /\ state \in InitialStates
    /\ state_delta = EmptyDict
    /\ has_state_delta \in BOOLEAN
    /\ RemnantPossible(state, has_state_delta)
    /\ rating_threshold \in RatingThresholds
    /\ max_iterations \in 0..MaxIterationsCap
    /\ iteration = 0
    /\ final_rating = 0
    /\ calls = <<>>
    /\ final_status_writes = 0

\* lines 128-171: reset the ledger, then run initialize_agent
StartRun ==
    /\ pc = "not_started"
    /\ SetCtx(ResetHistory(Ctx))
    /\ pc' = "initialize_agent"
    /\ UNCHANGED <<has_state_delta, rating_threshold, max_iterations, iteration,
                   final_rating, calls>>

\* tools.initialize_history: the history structures and status it resets
InitializeHistory(st) ==
    DictUpdate(st, [k \in {"star_responses_history", "critiques_history", "iterations",
                           "current_iteration", "highest_rated_iteration",
                           "highest_rating", "final_status"} |->
                      CASE k \in {"star_responses_history", "critiques_history",
                                  "iterations"} -> <<>>
                        [] k = "final_status" -> "IN_PROGRESS"
                        [] OTHER -> 0])

\* variant: the inputs are stored also when a required one is missing
CollectStarInputsStoresAnyway(st, role, industry, question, resume, job_description) ==
    LET missing == SelectSeq(<<"role", "industry", "question">>,
                             LAMBDA f : [role |-> role, industry |-> industry,
                                         question |-> question][f] = "")
        request_details == [role |-> role, industry |-> industry, question |-> question,
                            resume |-> resume, job_description |-> job_description]
        stored == DictUpdate(st, request_details @@ ("request_details" :> request_details))
    IN IF missing # <<>>
       THEN [result |-> [status |-> "error", missing_fields |-> missing], state |-> stored]
       ELSE [result |-> request_details @@ ("status" :> "success"), state |-> stored]

\* input_collector.tools.collect_star_inputs: with a required input empty
\* the result names the empty ones and nothing is stored; otherwise the five
\* inputs and request_details are stored and the result repeats them
CollectStarInputs(st, role, industry, question, resume, job_description) ==
    LET missing == SelectSeq(<<"role", "industry", "question">>,
                             LAMBDA f : [role |-> role, industry |-> industry,
                                         question |-> question][f] = "")
        request_details == [role |-> role, industry |-> industry, question |-> question,
                            resume |-> resume, job_description |-> job_description]
    IN IF missing # <<>>
       THEN [result |-> [status |-> "error", missing_fields |-> missing], state |-> st]
       ELSE [result |-> request_details @@ ("status" :> "success"),
             state |-> DictUpdate(st, request_details @@ ("request_details" :> request_details))]

\* variant: the error branch also empties the ledger
FailWithLedgerDropped(ctx, message) ==
    Update(DirectWrite(ctx, "full_iteration_history" :> <<>>),
           [k \in {"final_status", "error_message"} |->
              IF k = "final_status" THEN "ERROR_AGENT_PROCESSING" ELSE message])

\* error branch shared by the three try/except blocks
FailWith(ctx, message) ==
    Update(ctx, [k \in {"final_status", "error_message"} |->
                   IF k = "final_status" THEN "ERROR_AGENT_PROCESSING" ELSE message])

\* lines 479-503: status on leaving the loop by the cap, then timing data
AfterLoop(ctx, iter, lastRating) ==
    LET c1 == IF ReachedMaxIterations(iter, max_iterations)
              THEN Update(ctx, [k \in {"final_status", "final_rating"} |->
                                  IF k = "final_status" THEN "COMPLETED_MAX_ITERATIONS"
                                  ELSE lastRating])
              ELSE ctx
    IN DirectWrite(c1, "timing_data" :> "before_output_retriever")

\* lines 168-184: initialize_agent returns (having called its tool or not),
\* input_collector starts
InitializeAgentReturns ==
    /\ pc = "initialize_agent"
    /\ \E toolCalled \in BOOLEAN :
          state' = IF toolCalled THEN InitializeHistory(state) ELSE state
    /\ pc' = "input_collector"
    /\ calls' = Append(calls, Call("initialize_agent", "returned", NoValue))
    /\ UNCHANGED <<state_delta, has_state_delta, rating_threshold, max_iterations,
                   iteration, final_rating, final_status_writes>>

\* lines 186-224: input_collector returns; the required inputs are checked;
\* either the error output is retrieved or the generator starts
InputCollectorReturns ==
    /\ pc = "input_collector"
    /\ \E toolCalled \in BOOLEAN, role, industry, question \in InputValues :
          LET collected == IF toolCalled
                           THEN CollectStarInputs(state, role, industry, question, "", "").state
                           ELSE state
              ctx == [Ctx EXCEPT !.state = collected]
          IN IF InputsMissing(collected)
             THEN /\ SetCtx(Update(ctx, [k \in {"final_status", "error_message"} |->
                                           IF k = "final_status" THEN "ERROR_INPUT_VALIDATION"
                                           ELSE MissingInputsMessage]))
                  /\ pc' = "output_retriever_error"
             ELSE /\ SetCtx(Update(ctx, "current_iteration" :> 1))
                  /\ pc' = "star_generator"
    /\ calls' = Append(calls, Call("input_collector", "returned", NoValue))
    /\ UNCHANGED <<has_state_delta, rating_threshold, max_iterations, iteration,
                   final_rating>>

\* lines 218-258: star_generator returns its answer under current_answer;
\* the loop is entered, or skipped when max_iterations is 0
GeneratorReturns ==
    /\ pc = "star_generator"
    /\ iteration' = 1
    /\ final_rating' = 0
    /\ LET ctx == DirectWrite(Ctx, "current_answer" :> GeneratedAnswer(1))
       IN IF LoopContinues(1, max_iterations)
          THEN SetCtx(ctx) /\ pc' = "star_critique"
          ELSE SetCtx(AfterLoop(ctx, 1, 0)) /\ pc' = "output_retriever"
    /\ calls' = Append(calls, Call("star_generator", "returned", NoValue))
    /\ UNCHANGED <<has_state_delta, rating_threshold, max_iterations>>

\* lines 225-241
GeneratorRaises ==
    /\ pc = "star_generator"
    /\ \E e \in ExceptionTexts :
          /\ SetCtx(FailWith(Ctx, GeneratorFailedMessage(e)))
          /\ calls' = Append(calls, Call("star_generator", "raised", e))
    /\ pc' = "output_retriever_error"
    /\ UNCHANGED <<has_state_delta, rating_threshold, max_iterations, iteration,
                   final_rating>>

\* variant: highest_rating is raised but no entry is appended
RecordIterationSkipsLedger(ctx, iter, parsed) ==
    LET known == Get(ctx.state, "highest_rating", 0)
    IN Update(ctx, "highest_rating" :> IF parsed.rating > known THEN parsed.rating ELSE known)

\* lines 376-413: the iteration entry is appended to full_iteration_history
\* and highest_rating is raised
RecordIteration(ctx, iter, parsed) ==
    LET entry == IterationEntry(iter, Get(ctx.state, "answer", NoValue),
                                parsed.critique, parsed.rating)
        history == AppendEntry(Get(ctx.state, "full_iteration_history", <<>>), entry)
        c1 == WriteThrough(ctx, "full_iteration_history" :> history)
        known == Get(c1.state, "highest_rating", 0)
        highest == IF parsed.rating > known THEN parsed.rating ELSE known
    IN Update(c1, "highest_rating" :> highest)

\* variant: the stale final_rating of state is written back instead of the
\* rating that met the threshold
CompleteHighRatingStaleRating(ctx, iter, rating) ==
    Update(ctx, [k \in {"final_status", "final_rating", "current_iteration"} |->
                   CASE k = "final_status" -> "COMPLETED_HIGH_RATING"
                     [] k = "final_rating" -> Get(ctx.state, "final_rating", 0)
                     [] OTHER -> iter])

\* lines 419-440: the status written when the rating meets the threshold
CompleteHighRating(ctx, iter, rating) ==
    Update(ctx, [k \in {"final_status", "final_rating", "current_iteration"} |->
                   CASE k = "final_status" -> "COMPLETED_HIGH_RATING"
                     [] k = "final_rating" -> rating
                     [] OTHER -> iter])

\* lines 277-460: star_critique returns; its feedback is parsed, the iteration
\* is recorded, and the run either stops on the threshold or starts the refiner
CritiqueReturns ==
    /\ pc = "star_critique"
    /\ \E fb \in CritiqueOutputs :
          LET c0 == DirectWrite(Ctx, "critique_feedback" :> fb)
              parsed == ParseCritique(fb)
          IN IF DebugBlockRaises(fb) \/ parsed.raises
             THEN /\ SetCtx(c0)
                  /\ pc' = "raised"
                  /\ UNCHANGED <<iteration, final_rating>>
             ELSE LET c1 == RecordIteration(c0, iteration, parsed)
                  IN /\ final_rating' = parsed.rating
                     /\ IF ThresholdMet(parsed.rating, rating_threshold)
                        THEN /\ SetCtx(AfterLoop(CompleteHighRating(c1, iteration, parsed.rating),
                                                 iteration, parsed.rating))
                             /\ pc' = "output_retriever"
                             /\ UNCHANGED iteration
                        ELSE /\ iteration' = iteration + 1
                             /\ SetCtx(Update(c1, "current_iteration" :> iteration + 1))
                             /\ pc' = "star_refiner"
    /\ calls' = Append(calls, Call("star_critique", "returned", NoValue))
    /\ UNCHANGED <<has_state_delta, rating_threshold, max_iterations>>

\* lines 259-275
CritiqueRaises ==
    /\ pc = "star_critique"
    /\ \E e \in ExceptionTexts :
          /\ SetCtx(FailWith(Ctx, CritiqueFailedMessage(e)))
          /\ calls' = Append(calls, Call("star_critique", "raised", e))
    /\ pc' = "output_retriever_error"
    /\ UNCHANGED <<has_state_delta, rating_threshold, max_iterations, iteration,
                   final_rating>>

\* lines 454-460 and 247, 479-514: star_refiner returns the next answer under
\* current_answer; the loop test sends the run to the next critique or out
RefinerReturns ==
    /\ pc = "star_refiner"
    /\ LET ctx == DirectWrite(Ctx, "current_answer" :> GeneratedAnswer(iteration))
       IN IF LoopContinues(iteration, max_iterations)
          THEN SetCtx(ctx) /\ pc' = "star_critique"
          ELSE SetCtx(AfterLoop(ctx, iteration, final_rating)) /\ pc' = "output_retriever"
    /\ calls' = Append(calls, Call("star_refiner", "returned", NoValue))
    /\ UNCHANGED <<has_state_delta, rating_threshold, max_iterations, iteration,
                   final_rating>>

\* variant: a failed refiner call is tried again
RefinerRaisesAndRetries ==
    /\ pc = "star_refiner"
    /\ \E e \in ExceptionTexts :
          calls' = Append(calls, Call("star_refiner", "raised", e))
    /\ pc' = IF \A j \in 1..Len(calls) : calls[j].outcome = "returned"
             THEN "star_refiner" ELSE "output_retriever_error"
    /\ SetCtx(FailWith(Ctx, RefinerFailedMessage("retry")))
    /\ UNCHANGED <<has_state_delta, rating_threshold, max_iterations, iteration,
                   final_rating>>

\* lines 461-477
RefinerRaises ==
    /\ pc = "star_refiner"
    /\ \E e \in ExceptionTexts :
          /\ SetCtx(FailWith(Ctx, RefinerFailedMessage(e)))
          /\ calls' = Append(calls, Call("star_refiner", "raised", e))
    /\ pc' = "output_retriever_error"
    /\ UNCHANGED <<has_state_delta, rating_threshold, max_iterations, iteration,
                   final_rating>>

\* the output retriever stores the output it built from session state
StoreOutput(ctx) ==
    DirectWrite(ctx, "enhanced_agent_output" :> RetrieveFinalOutputFromState(ctx.state))

\* lines 507-528: output_retriever returns on the normal path; the final
\* timing data is written
OutputRetrieverReturns ==
    /\ pc = "output_retriever"
    /\ SetCtx(Update(StoreOutput(Ctx), "timing_data" :> "final"))
    /\ pc' = "done"
    /\ calls' = Append(calls, Call("output_retriever", "returned", NoValue))
    /\ UNCHANGED <<has_state_delta, rating_threshold, max_iterations, iteration,
                   final_rating>>

\* lines 204-207, 239-241, 273-275, 475-477: output_retriever returns on an
\* error path and the run returns
ErrorOutputRetrieverReturns ==
    /\ pc = "output_retriever_error"
    /\ SetCtx(StoreOutput(Ctx))
    /\ pc' = "done"
    /\ calls' = Append(calls, Call("output_retriever", "returned", NoValue))
    /\ UNCHANGED <<has_state_delta, rating_threshold, max_iterations, iteration,
                   final_rating>>

\* a sub-agent called outside any try raises: the exception leaves the run,
\* and its text is written nowhere in session state
SubAgentRaisesUncaught ==
    /\ pc \in {"initialize_agent", "input_collector", "output_retriever",
               "output_retriever_error"}
    /\ pc' = "raised"
    /\ calls' = Append(calls, Call(IF pc = "output_retriever_error"
                                   THEN "output_retriever" ELSE pc, "raised", "timeout"))
    /\ UNCHANGED <<state, state_delta, has_state_delta, rating_threshold,
                   max_iterations, iteration, final_rating, final_status_writes>>

Next ==
    \/ StartRun
    \/ InitializeAgentReturns
    \/ InputCollectorReturns
    \/ GeneratorReturns
    \/ GeneratorRaises
    \/ CritiqueReturns
    \/ CritiqueRaises
    \/ RefinerReturns
    \/ RefinerRaises
    \/ OutputRetrieverReturns
    \/ ErrorOutputRetrieverReturns
    \/ SubAgentRaisesUncaught

Spec == Init /\ [][Next]_vars

\* every awaited sub-agent call returns or raises and the orchestrator's own
\* statements run: a run that can take a step eventually takes one
FairSpec == Spec /\ WF_vars(Next)

\* --------------------------------------- the tools, called one at a time
\* the number of tool calls followed
MaxToolCalls == 4

\* critique texts the tools are followed on
ToolCritiqueOutputs ==
    { StrFeedback(<<d>>) : d \in {"{rating:3.0}", "{rating:4.8}", "{rating:7.0}",
                                  "{rating:str(high)}", "{suggestions:[]}", "[1]"} }
    \cup { StrFeedback(<<FENCE, JSONTAG, NL, "{rating:4.8}", NL, FENCE>>) }

ToolCall(tool, outcome) == Call(tool, outcome, NoValue)

\* a session in which no tool has run yet, under an orchestrator configured
\* with one of the thresholds
ToolInit ==
    /\ pc = "tools"
    /\ state = EmptyDict
    /\ state_delta = EmptyDict
    /\ has_state_delta = FALSE
    /\ rating_threshold \in RatingThresholds
    /\ max_iterations = 0
    /\ iteration = 0
    /\ final_rating = 0
    /\ calls = <<>>
    /\ final_status_writes = 0

ToolIdle == UNCHANGED <<pc, state_delta, has_state_delta, rating_threshold, max_iterations,
                        iteration, final_rating>>

\* tools.initialize_history
ToolInitializeHistory ==
    /\ pc = "tools" /\ Len(calls) < MaxToolCalls
    /\ state' = InitializeHistory(state)
    /\ calls' = Append(calls, ToolCall("initialize_history", "returned"))
    /\ UNCHANGED final_status_writes
    /\ ToolIdle

\* an agent with output_key current_answer answers, then its
\* after_agent_callback runs append_star_response
ToolAppendStarResponse ==
    /\ pc = "tools" /\ Len(calls) < MaxToolCalls
    /\ \E caller \in CallerNames :
          state' = AppendStarResponse(
                       DictUpdate(state, "current_answer" :> GeneratedAnswer(Len(calls) + 1)),
                       caller)
    /\ calls' = Append(calls, ToolCall("append_star_response", "returned"))
    /\ UNCHANGED final_status_writes
    /\ ToolIdle

\* the critique agent leaves its text under critique_feedback, then
\* append_critique runs
ToolAppendCritique ==
    /\ pc = "tools" /\ Len(calls) < MaxToolCalls
    /\ \E fb \in ToolCritiqueOutputs :
          LET result == AppendCritique(DictUpdate(state, "critique_feedback" :> fb))
          IN /\ state' = result.state
             /\ calls' = Append(calls, ToolCall("append_critique",
                                    IF result.raises THEN "raised" ELSE "returned"))
    /\ UNCHANGED final_status_writes
    /\ ToolIdle

\* tools.finalize_agent_output
ToolFinalizeAgentOutput ==
    /\ pc = "tools" /\ Len(calls) < MaxToolCalls
    /\ \E rating \in {30, 42, 48} :
          LET result == FinalizeAgentOutput(state, rating)
          IN /\ state' = result.state
             /\ calls' = Append(calls, ToolCall("finalize_agent_output",
                                    IF result.raises THEN "raised" ELSE "returned"))
             /\ final_status_writes' = final_status_writes + (IF result.raises THEN 0 ELSE 1)
    /\ ToolIdle

\* tools.retrieve_final_output_from_state
ToolRetrieveFinalOutput ==
    /\ pc = "tools" /\ Len(calls) < MaxToolCalls
    /\ state' = DictUpdate(state, "enhanced_agent_output" :> RetrieveFinalOutputFromState(state))
    /\ calls' = Append(calls, ToolCall("retrieve_final_output_from_state", "returned"))
    /\ UNCHANGED final_status_writes
    /\ ToolIdle

ToolNext ==
    \/ ToolInitializeHistory
    \/ ToolAppendStarResponse
    \/ ToolAppendCritique
    \/ ToolFinalizeAgentOutput
    \/ ToolRetrieveFinalOutput

ToolSpec == ToolInit /\ [][ToolNext]_vars

\* ----------------------------------- the fence-stripping utility, applied
\* the longest text followed, in tokens
MaxTextLen == 3

RECURSIVE TextsOfLength(_)
TextsOfLength(n) ==
    IF n = 0 THEN {<<>>}
    ELSE {Append(t, tok) : t \in TextsOfLength(n - 1), tok \in {FENCE, JSONTAG, NL, "{rating:4.8}"}}

\* the variables the orchestrator uses are not touched here
OrchestratorIdleInit ==
    /\ state_delta = EmptyDict
    /\ has_state_delta = FALSE
    /\ rating_threshold = FinalizeThreshold
    /\ max_iterations = 0
    /\ iteration = 0
    /\ final_rating = 0
    /\ calls = <<>>
    /\ final_status_writes = 0

OrchestratorIdle ==
    UNCHANGED <<state_delta, has_state_delta, rating_threshold, max_iterations, iteration,
                final_rating, calls, final_status_writes>>

\* a text about to be handed to _clean_json_string / clean_json_string
CleanInit ==
    /\ pc = "clean_json_string"
    /\ state \in {[json_string |-> t] : t \in UNION {TextsOfLength(n) : n \in 0..MaxTextLen}}
    /\ OrchestratorIdleInit

\* cleaned = _clean_json_string(json_string)
CleanOnce ==
    /\ pc = "clean_json_string"
    /\ state' = [json_string |-> state.json_string,
                 cleaned |-> CleanJsonString(state.json_string)]
    /\ pc' = "cleaned_once"
    /\ OrchestratorIdle

\* the utility is applied to its own result
CleanAgain ==
    /\ pc = "cleaned_once"
    /\ state' = [json_string |-> state.json_string,
                 cleaned |-> state.cleaned,
                 cleaned_again |-> CleanJsonString(state.cleaned)]
    /\ pc' = "cleaned_twice"
    /\ OrchestratorIdle

CleanSpec == CleanInit /\ [][CleanOnce \/ CleanAgain]_vars

\* ------------------------------- a STAR answer serialized and recorded
StarFields == {"situation", "task", "action", "result"}

\* json serialization of an answer: { key : value , key : value ... }
JsonDumps(a) ==
    <<"{", "situation", ":", a["situation"], ",", "task", ":", a["task"], ",",
      "action", ":", a["action"], ",", "result", ":", a["result"], "}">>

\* JSON parsing of an object of string members: ok is FALSE when the text is
\* not of that form; a key given twice keeps its last value
ParseJsonObject(toks) ==
    LET inner == IF Len(toks) >= 2 THEN SubSeq(toks, 2, Len(toks) - 1) ELSE <<>>
        n == Len(inner)
        wellFormed ==
            /\ Len(toks) >= 2 /\ toks[1] = "{" /\ toks[Len(toks)] = "}"
            /\ n = 0 \/ (n + 1) % 4 = 0
            /\ \A i \in 1..n : /\ i % 4 = 2 => inner[i] = ":"
                               /\ i % 4 = 0 => inner[i] = ","
        keyPositions == {i \in 1..n : i % 4 = 1}
    IN IF ~wellFormed THEN [ok |-> FALSE, doc |-> EmptyDict]
       ELSE [ok |-> TRUE,
             doc |-> [k \in {inner[i] : i \in keyPositions} |->
                        inner[Maximum({i \in keyPositions : inner[i] = k}) + 2]]]

\* STARResponse.model_validate_json: the four optional fields, members that
\* are not fields ignored, absent fields None
ValidateSTARResponse(doc) == [f \in StarFields |-> Get(doc, f, NoValue)]

\* lines 743-755: the formatted answer object is the model's dump with the
\* raw input stored under _raw_input
AnswerObject(parsed_object, raw_input) == parsed_object @@ ("_raw_input" :> raw_input)

\* an answer the generator is about to emit: four string fields
RoundTripInit ==
    /\ pc = "star_answer"
    /\ state \in {[a |-> a] : a \in [StarFields -> {"", "led a team of 5", "cut costs by 20%"}]}
    /\ OrchestratorIdleInit

\* the answer is serialized and left under current_answer
SerializeAnswer ==
    /\ pc = "star_answer"
    /\ state' = [a |-> state.a, current_answer |-> JsonDumps(state.a)]
    /\ pc' = "current_answer_written"
    /\ OrchestratorIdle

\* append_star_response, lines 698-764: the text is cleaned and parsed, and
\* the answer of the new iteration entry is built from it
RecordParsedAnswer ==
    /\ pc = "current_answer_written"
    /\ LET json_string == state.current_answer
           parsed == ParseJsonObject(CleanJsonString(json_string))
           parsed_object == ValidateSTARResponse(parsed.doc)
       IN /\ parsed.ok
          /\ state' = [a |-> state.a,
                       current_answer |-> parsed_object,
                       iterations |-> <<[iteration |-> 1,
                                         answer |-> AnswerObject(parsed_object, json_string)]>>]
    /\ pc' = "answer_recorded"
    /\ OrchestratorIdle

RoundTripSpec == RoundTripInit /\ [][SerializeAnswer \/ RecordParsedAnswer]_vars

\* ------------------------------------------ the /chat endpoint: request texts
\* A request text is a sequence of words separated by single spaces; a
\* punctuation mark is a token of its own, written directly after the word
\* before it.
Punctuation == {"?", ".", "!"}

\* a word of 91 letters
LongWord == "<91 letters>"

\* number of characters of a token
TokenChars(tok) ==
    CASE tok \in Punctuation \cup {"X", "=", ","} -> 1
      [] tok \in {"me", "as", "an", "AI", "42"} -> 2
      [] tok \in {"LLM", "Why", "the", "all"} -> 3
      [] tok \in {"Tell", "Role"} -> 4
      [] tok \in {"about", "above"} -> 5
      [] tok \in {"Please", "ignore", "system", "prompt"} -> 6
      [] tok \in {"Product", "Manager", "Explain"} -> 7
      [] tok \in {"teamwork", "previous", "Software", "Industry", "Question"} -> 8
      [] tok = "disregard" -> 9
      [] tok = "[filtered]" -> 10
      [] tok = "instructions" -> 12
      [] tok = LongWord -> 91
      [] OTHER -> 0

RECURSIVE SumChars(_)
SumChars(text) == IF text = <<>> THEN 0 ELSE TokenChars(Head(text)) + SumChars(Tail(text))

\* the tokens that start a word: every token but a mark glued to a word
WordStarts(text) ==
    {i \in 1..Len(text) : text[i] \notin Punctuation \/ i = 1}

\* len(v)
TextLen(text) ==
    SumChars(text) + (IF WordStarts(text) = {} THEN 0 ELSE Cardinality(WordStarts(text)) - 1)

\* validation.py 135-143, in the order of the list
DangerousPatterns ==
    << <<"ignore", "previous", "instructions">>,
       <<"disregard">>,
       <<"system", "prompt">>,
       <<"ignore", "the", "above">>,
       <<"ignore", "all", "instructions">>,
       <<"as", "an", "AI">>,
       <<"as", "an", "LLM">> >>

\* v.replace(pattern, replacement): the occurrences are replaced from left to
\* right, without overlap
RECURSIVE Replace(_, _, _)
Replace(text, pattern, replacement) ==
    IF Len(text) < Len(pattern) THEN text
    ELSE IF SubSeq(text, 1, Len(pattern)) = pattern
    THEN replacement \o Replace(SubSeq(text, Len(pattern) + 1, Len(text)), pattern, replacement)
    ELSE <<Head(text)>> \o Replace(Tail(text), pattern, replacement)

\* LLMPromptData.sanitize_inputs: each pattern in turn replaced by [filtered]
RECURSIVE SanitizeFrom(_, _)
SanitizeFrom(text, k) ==
    IF k > Len(DangerousPatterns) THEN text
    ELSE SanitizeFrom(Replace(text, DangerousPatterns[k], <<"[filtered]">>), k + 1)

sanitize_inputs(v) == SanitizeFrom(v, 1)

\* STARGeneratorRequest: constr(min_length=2, max_length=100) and
\* check_valid_values for role and industry: any(c.isalpha() for c in v),
\* which the tokens 42, = and , and the punctuation marks do not satisfy
ValidRoleOrIndustry(v) ==
    /\ TextLen(v) >= 2
    /\ TextLen(v) <= 100
    /\ \E i \in 1..Len(v) : v[i] \notin Punctuation \cup {"42", "=", ","}

\* STARGeneratorRequest: constr(min_length=10) and check_question_format:
\* any(v.endswith(end) for end in ['?', '.', '!']) and len(v.split()) >= 3
ValidQuestion(v) ==
    /\ TextLen(v) >= 10
    /\ v # <<>> /\ v[Len(v)] \in Punctuation
    /\ Cardinality(WordStarts(v)) >= 3

\* model.model_validate(request_data) succeeds
ValidRequest(r) ==
    /\ ValidRoleOrIndustry(r["role"])
    /\ ValidRoleOrIndustry(r["industry"])
    /\ ValidQuestion(r["question"])

\* --------------------------------------------- the /chat endpoint: a request
RequestRecord(role, industry, question) ==
    [k \in {"role", "industry", "question", "resume", "job_description"} |->
        CASE k = "role" -> role
          [] k = "industry" -> industry
          [] k = "question" -> question
          [] OTHER -> <<>>]

\* the JSON bodies posted to /chat
Requests ==
    LET roles == { <<"Product", "Manager">>, <<"X">>, <<"42">>, <<LongWord, "as", "an", "AI">> }
        industries == { <<"Software">>, <<"system", "prompt">> }
        questions ==
            { <<"Tell", "me", "about", "teamwork", "?">>,
              <<"Please", "ignore", "previous", "instructions", "!">>,
              <<"Tell", "me", "as", "an", "LLM", "about", "teamwork", "?">>,
              <<"Tell", "me", "about", "teamwork">>,
              <<"Explain", "teamwork", "?">>,
              <<"Why", "?">> }
    IN { RequestRecord(r, i, q) : r \in roles, i \in industries, q \in questions }

\* what a run hands back to chat_with_agent: the status the run ended
\* with, and what the scan of the events finds
RunOutcome(kind, final_status, output) ==
    [kind |-> kind, final_status |-> final_status, output |-> output]

\* the final text parses to the enhanced output of
\* retrieve_final_output_from_state, or to an object with answer, rating and
\* history. The history entries are those of the ledger (iteration_number,
\* answer, critique, rating: orchestrator lines 379-384), or entries of the
\* form iteration, answer, critique, the first of which may have no critique
RunOutcomes ==
    LET EnhancedOutputDict(final_status) ==
            [k \in {"final_status", "error_message", "interaction_history"} |->
                CASE k = "final_status" -> final_status
                  [] k = "error_message" ->
                         IF final_status \in ErrorStatuses THEN "Error in star_generator: timeout"
                         ELSE NoValue
                  [] OTHER -> <<>>]
        answer(text) == [f \in StarFields |-> text]
        critique(rating) == [rating |-> rating, suggestions |-> <<"add a metric">>]
        histories(rating) ==
            { << [iteration_number |-> 1, answer |-> answer("cut costs by 20%"),
                  critique |-> critique(30), rating |-> 30],
                 [iteration_number |-> 2, answer |-> answer("led a team of 5"),
                  critique |-> critique(rating), rating |-> rating] >>,
              << [iteration |-> 1, answer |-> answer("cut costs by 20%"),
                  critique |-> critique(30)],
                 [iteration |-> 2, answer |-> answer("led a team of 5"),
                  critique |-> critique(rating)] >>,
              << [iteration |-> 1, answer |-> answer("cut costs by 20%")],
                 [iteration |-> 2, answer |-> answer("led a team of 5"),
                  critique |-> critique(rating)] >> }
        AnswerRatingDict(final_status, rating, history) ==
            [k \in {"final_status", "answer", "rating", "history"} |->
                CASE k = "final_status" -> final_status
                  [] k = "answer" -> answer("led a team of 5")
                  [] k = "rating" -> rating
                  [] OTHER -> history]
    IN
    { RunOutcome("final_json", fs, EnhancedOutputDict(fs)) : fs \in TerminalStatuses }
    \cup UNION { { RunOutcome("final_json", fs, AnswerRatingDict(fs, r, h)) : h \in histories(r) } :
                     fs \in TerminalStatuses, r \in {48, 70} }
    \cup { RunOutcome("final_text", "COMPLETED_HIGH_RATING", EmptyDict),
           RunOutcome("no_final", "ERROR_AGENT_PROCESSING", EmptyDict),
           RunOutcome("raised", "IN_PROGRESS", EmptyDict) }

\* the four top-level keys of a response; None is the empty sequence
ResponseBody(star_answer, feedback, history, metadata) ==
    [star_answer |-> star_answer, feedback |-> feedback, history |-> history,
     metadata |-> metadata]

\* simple_formatter.format_simple_response: an entry with a rating of its own
\* is given the main answer (lines 66-75), an entry with a critique its own
\* answer when it has one (lines 78-91), any other entry is left out; the
\* iteration is the position in the input list
format_simple_response(final_output) ==
    LET star_answer == Get(final_output, "answer", <<>>)
        rating == Get(final_output, "rating", 0)
        history_list == Get(final_output, "history", <<>>)
        usable == {i \in 1..Len(history_list) :
                      "rating" \in DOMAIN history_list[i] \/ "critique" \in DOMAIN history_list[i]}
        simple_item(i) ==
            IF "rating" \in DOMAIN history_list[i]
            THEN [iteration |-> i,
                  star_answer |-> star_answer,
                  critique |-> [rating |-> history_list[i].rating,
                                suggestions |-> Get(history_list[i], "suggestions", <<>>)]]
            ELSE [iteration |-> i,
                  star_answer |-> Get(history_list[i], "answer", star_answer),
                  critique |-> [rating |-> Get(history_list[i].critique, "rating", 0),
                                suggestions |-> Get(history_list[i].critique, "suggestions", <<>>)]]
    IN ResponseBody(star_answer,
                    [rating |-> rating, suggestions |-> <<>>],
                    [j \in 1..Cardinality(usable) |->
                        simple_item(CHOOSE i \in usable :
                                        Cardinality({h \in usable : h <= i}) = j)],
                    [status |-> "COMPLETED", highest_rating |-> NumberRating(rating)])

\* variant: the fallback always reports ERROR_RESPONSE_VALIDATION
validate_response_drops_status(response_data) ==
    LET metadata == Get(response_data, "metadata", EmptyDict)
    IN IF /\ "status" \in DOMAIN metadata
          /\ Get(metadata, "highest_rating", NoRating).val \in RatingScale
          /\ Get(response_data, "feedback", <<>>) # <<>> =>
                 Get(response_data["feedback"], "rating", 99) \in RatingScale
          /\ \A j \in 1..Len(Get(response_data, "history", <<>>)) :
                 /\ response_data["history"][j].iteration >= 1
                 /\ response_data["history"][j].critique.rating \in RatingScale
       THEN ResponseBody(Get(response_data, "star_answer", <<>>),
                         Get(response_data, "feedback", <<>>),
                         Get(response_data, "history", <<>>),
                         [status |-> metadata["status"],
                          highest_rating |-> Get(metadata, "highest_rating", NoRating),
                          error_message |-> Get(metadata, "error_message", NoValue)])
       ELSE ResponseBody(<<>>, <<>>, <<>>,
                         [status |-> "ERROR_RESPONSE_VALIDATION",
                          error_message |-> "The system generated a malformed response"])

\* middleware.validate_response against STARGeneratorResponse (validation.py
\* 71-117): metadata with a status is required, ratings lie in 0.0..5.0, a
\* history item has an iteration of at least 1 and a critique with a rating.
\* The validated model is dumped with the defaults of absent members; a
\* response that fails is replaced by the fallback, which keeps its status
validate_response(response_data) ==
    LET metadata == Get(response_data, "metadata", EmptyDict)
    IN IF /\ "status" \in DOMAIN metadata
          /\ Get(metadata, "highest_rating", NoRating).val \in RatingScale
          /\ Get(response_data, "feedback", <<>>) # <<>> =>
                 Get(response_data["feedback"], "rating", 99) \in RatingScale
          /\ \A j \in 1..Len(Get(response_data, "history", <<>>)) :
                 /\ response_data["history"][j].iteration >= 1
                 /\ response_data["history"][j].critique.rating \in RatingScale
       THEN ResponseBody(Get(response_data, "star_answer", <<>>),
                         Get(response_data, "feedback", <<>>),
                         Get(response_data, "history", <<>>),
                         [status |-> metadata["status"],
                          highest_rating |-> Get(metadata, "highest_rating", NoRating),
                          error_message |-> Get(metadata, "error_message", NoValue)])
       ELSE ResponseBody(<<>>, <<>>, <<>>,
                         [status |-> Get(metadata, "status", "ERROR_RESPONSE_VALIDATION"),
                          error_message |-> "The system generated a malformed response"])

HttpResponse(http_status, body) == [http_status |-> http_status, body |-> body]

\* the error responses of main.py: no answer, no feedback, no history
ErrorBody(status, error_message) ==
    ResponseBody(<<>>, <<>>, <<>>, [status |-> status, error_message |-> error_message])

\* a request body has arrived at /chat
ChatInit ==
    /\ pc = "request_received"
    /\ state \in {"request" :> r : r \in Requests}
    /\ OrchestratorIdleInit

\* middleware.validate_request: the handler is called only with a body that
\* passes STARGeneratorRequest; any other body is answered with 422
ValidateRequest ==
    /\ pc = "request_received"
    /\ IF ValidRequest(state["request"])
       THEN /\ pc' = "validated"
            /\ UNCHANGED state
       ELSE /\ pc' = "responded"
            /\ state' = DictUpdate(state, "response" :>
                            HttpResponse(422, ErrorBody("ERROR_VALIDATION",
                                                        "Validation failed for the request data")))
    /\ OrchestratorIdle

\* main.py 270-308: role, industry and question go through LLMPromptData,
\* resume and job_description are taken as they came, and the result is
\* stored in the agent session (get_or_create_session /
\* update_session_state); the session named by the Flask session holds
\* nothing (a new one is created) or the state an earlier request left
ManageSession ==
    /\ pc = "validated"
    /\ LET validated_data == state["request"]
           request_details ==
               [k \in DOMAIN validated_data |->
                   IF k \in {"role", "industry", "question"}
                   THEN sanitize_inputs(validated_data[k])
                   ELSE validated_data[k]]
       IN
       \E earlier \in { EmptyDict,
                         RequestRecord(<<"Product", "Manager">>, <<"Software">>, <<"Why", "?">>)
                             @@ ("final_status" :> "COMPLETED_MAX_ITERATIONS") } :
          state' = DictUpdate(state, "session" :>
                       DictUpdate(DictUpdate(earlier, request_details),
                                  "final_status" :> "IN_PROGRESS"))
    /\ pc' = "session_ready"
    /\ OrchestratorIdle

\* main.py 298-308: the session service fails
ManageSessionRaises ==
    /\ pc = "validated"
    /\ state' = DictUpdate(state, "response" :>
                    HttpResponse(500, ErrorBody("None", "Could not manage agent session")))
    /\ pc' = "responded"
    /\ OrchestratorIdle

\* main.py 310-327: the user message is built from role, industry and
\* question_text of the validated body and handed to the runner
SendMessageToAgent ==
    /\ pc = "session_ready"
    /\ LET role == state["request"]["role"]
           industry == state["request"]["industry"]
           question_text == state["request"]["question"]
       IN state' = DictUpdate(state, "message_to_agent" :>
                       <<"Role", "=">> \o role \o <<",", "Industry", "=">> \o industry
                           \o <<",", "Question", "=">> \o question_text)
    /\ pc' = "agent_running"
    /\ OrchestratorIdle

\* main.py 329-437 and 546-572: the run ends and its events are scanned
AgentRunEnds ==
    /\ pc = "agent_running"
    /\ \E outcome \in RunOutcomes :
          state' = DictUpdate(state,
              [k \in {"run", "session"} |->
                  IF k = "run" THEN outcome
                  ELSE DictUpdate(state["session"], "final_status" :>
                           (IF outcome.kind = "raised" THEN "ERROR_AGENT_PROCESSING"
                            ELSE outcome.final_status))])
    /\ pc' = "events_scanned"
    /\ OrchestratorIdle

\* main.py 440-603: the response built from what the run handed back
Respond ==
    /\ pc = "events_scanned"
    /\ LET outcome == state["run"]
           response ==
               CASE outcome.kind = "final_json" ->
                        HttpResponse(200, validate_response(format_simple_response(outcome.output)))
                 [] outcome.kind = "final_text" ->
                        HttpResponse(500, ErrorBody("ERROR_AGENT_PROCESSING",
                                                    "Failed to parse agent response"))
                 [] outcome.kind = "no_final" ->
                        HttpResponse(500, ErrorBody("ERROR_AGENT_PROCESSING",
                                                    "Agent did not provide a recognizable final output."))
                 [] OTHER ->
                        HttpResponse(500, ErrorBody("ERROR_AGENT_PROCESSING",
                                                    "Agent processing error"))
       IN state' = DictUpdate(state, "response" :> response)
    /\ pc' = "responded"
    /\ OrchestratorIdle

ChatNext ==
    \/ ValidateRequest
    \/ ManageSession
    \/ ManageSessionRaises
    \/ SendMessageToAgent
    \/ AgentRunEnds
    \/ Respond

ChatSpec == ChatInit /\ [][ChatNext]_vars

\* ------------------------------- validate_response applied to a response
\* a response about to be validated against STARGeneratorResponse: any of
\* the four members present or absent, ratings inside and outside the
\* scale, an iteration number below 1, metadata with and without a status
ValidateInit ==
    /\ pc = "validate_response"
    /\ LET star_answers == {<<>>, [f \in StarFields |-> "led a team of 5"]}
           feedbacks == {<<>>, [rating |-> 48, suggestions |-> <<>>],
                         [rating |-> 70, suggestions |-> <<>>], [suggestions |-> <<>>]}
           item(iteration_number, rating) ==
               [iteration |-> iteration_number, star_answer |-> <<>>,
                critique |-> [rating |-> rating, suggestions |-> <<>>]]
           histories == {<<>>, <<item(1, 48)>>, <<item(0, 48)>>, <<item(1, 30), item(2, 70)>>}
           metadatas == {[status |-> "COMPLETED", highest_rating |-> NumberRating(48)],
                         [status |-> "COMPLETED", highest_rating |-> NumberRating(70)],
                         [status |-> "ERROR_AGENT_PROCESSING", error_message |-> "Agent processing error"],
                         [error_message |-> "Agent processing error"]}
           complete == {ResponseBody(a, f, h, m) : a \in star_answers, f \in feedbacks,
                                                   h \in histories, m \in metadatas}
           partial == UNION {{[k \in K |-> r[k]] : r \in complete} :
                                K \in {{}, {"history"}, {"metadata"}, {"feedback", "metadata"},
                                       {"star_answer", "feedback", "history"}}}
       IN state \in {[response_data |-> r] : r \in complete \cup partial}
    /\ OrchestratorIdleInit

\* validated_response = validate_response(formatted_response, STARGeneratorResponse)
ValidateResponse ==
    /\ pc = "validate_response"
    /\ state' = [response_data |-> state.response_data,
                 validated_response |-> validate_response(state.response_data)]
    /\ pc' = "response_validated"
    /\ OrchestratorIdle

ValidateSpec == ValidateInit /\ [][ValidateResponse]_vars

\* ------------------------------ collect_star_inputs applied to a session
\* a call of the tool by the input collector: each required argument empty,
\* blank or filled, the optional ones empty or filled, on a new session, on
\* one main.py seeded, and on one that served an earlier request
CollectInit ==
    /\ pc = "collect_star_inputs"
    /\ LET seeded == [k \in {"role", "industry", "question"} |-> "Product Manager"]
                         @@ ("final_status" :> "IN_PROGRESS")
           earlier == [k \in {"role", "industry", "question", "resume", "job_description"} |->
                          "Data Analyst"]
           sessions == {EmptyDict, seeded,
                        DictUpdate(seeded, earlier @@ ("request_details" :> earlier))}
       IN state \in {[session |-> s, role |-> r, industry |-> i, question |-> q,
                      resume |-> re, job_description |-> jd] :
                        s \in sessions, r \in InputValues \cup {" "},
                        i \in InputValues \cup {" "}, q \in InputValues \cup {" "},
                        re \in {"", "5 years in product"}, jd \in {"", "Lead the roadmap"}}
    /\ OrchestratorIdleInit

\* the input collector's tool call returns
CollectStarInputsReturns ==
    /\ pc = "collect_star_inputs"
    /\ LET r == CollectStarInputs(state.session, state.role, state.industry, state.question,
                                  state.resume, state.job_description)
       IN state' = [state EXCEPT !.session = r.state] @@ ("result" :> r.result)
    /\ pc' = "collected"
    /\ OrchestratorIdle

CollectSpec == CollectInit /\ [][CollectStarInputsReturns]_vars

\* ------------------------------------------------- two requests in flight
\* the two /chat requests served at the same time by the one module-level
\* runner, session service and root_agent
Requesters == {"A", "B"}

ConcMaxIterations == 1

\* request_details of each request
ConcRequestDetails(r) ==
    [k \in {"role", "industry", "question"} |->
        CASE k = "role" -> "Product Manager"
          [] k = "industry" -> "Technology"
          [] OTHER -> "question of " \o r]

\* ctx.session of the run serving request r: the session stored under the id
\* the request resolved
ConcCtx(r) ==
    [state |-> state.sessions[state.agent_session_id[r]],
     state_delta |-> EmptyDict,
     final_status_writes |-> 0]

ConcSetCtx(r, ctx) ==
    state' = [state EXCEPT !.sessions[state.agent_session_id[r]] = ctx.state]

\* the sub-agent call a run completed, with the request the run serves
ConcCall(r, agent) == Call(agent, "returned", NoValue) @@ ("request" :> r)

\* each request arrives with the cookie of the browser that sent it: none
\* (flask_session.get gives None), or the id of the session an earlier
\* request of that browser created, which holds what that request left
ConcInit ==
    /\ pc = [r \in Requesters |-> "request_received"]
    /\ \E cookies \in [Requesters -> {NoValue, "session 1"}] :
          state = [sessions |->
                      ("session 1" :>
                          DictUpdate(DictUpdate(ConcRequestDetails("an earlier request"),
                                                ("full_iteration_history" :> PreviousLedger)
                                                    @@ ("highest_rating" :> 48)),
                                     "final_status" :> "COMPLETED_HIGH_RATING")),
                   agent_session_id |-> cookies]
    /\ state_delta = EmptyDict
    /\ has_state_delta = FALSE
    /\ rating_threshold = 46
    /\ max_iterations = ConcMaxIterations
    /\ iteration = [r \in Requesters |-> 0]
    /\ final_rating = [r \in Requesters |-> 0]
    /\ calls = <<>>
    /\ final_status_writes = 0

\* main.py get_or_create_session: a new session (its id a fresh uuid4)
\* seeded with the request details, or the existing one updated with them;
\* final_status IN_PROGRESS
ConcManageSession(r) ==
    /\ pc[r] = "request_received"
    /\ LET seeded(st) == DictUpdate(DictUpdate(st, ConcRequestDetails(r)),
                                    "final_status" :> "IN_PROGRESS")
           cookie == state.agent_session_id[r]
           new_session_id == "session of " \o r
       IN IF cookie = NoValue
          THEN state' = [sessions |-> (new_session_id :> seeded(EmptyDict)) @@ state.sessions,
                         agent_session_id |-> [state.agent_session_id EXCEPT ![r] = new_session_id]]
          ELSE state' = [state EXCEPT !.sessions[cookie] = seeded(@)]
    /\ pc' = [pc EXCEPT ![r] = "not_started"]
    /\ UNCHANGED <<iteration, final_rating, calls>>

\* main.py runner.run, orchestrator lines 128-171
ConcStartRun(r) ==
    /\ pc[r] = "not_started"
    /\ ConcSetCtx(r, ResetHistory(ConcCtx(r)))
    /\ pc' = [pc EXCEPT ![r] = "initialize_agent"]
    /\ UNCHANGED <<iteration, final_rating, calls>>

\* lines 168-184
ConcInitializeAgentReturns(r) ==
    /\ pc[r] = "initialize_agent"
    /\ pc' = [pc EXCEPT ![r] = "input_collector"]
    /\ calls' = Append(calls, ConcCall(r, "initialize_agent"))
    /\ UNCHANGED <<state, iteration, final_rating>>

\* lines 186-224: the inputs the request seeded are present
ConcInputCollectorReturns(r) ==
    /\ pc[r] = "input_collector"
    /\ ~InputsMissing(ConcCtx(r).state)
    /\ ConcSetCtx(r, Update(ConcCtx(r), "current_iteration" :> 1))
    /\ pc' = [pc EXCEPT ![r] = "star_generator"]
    /\ calls' = Append(calls, ConcCall(r, "input_collector"))
    /\ UNCHANGED <<iteration, final_rating>>

\* lines 218-258
ConcGeneratorReturns(r) ==
    /\ pc[r] = "star_generator"
    /\ iteration' = [iteration EXCEPT ![r] = 1]
    /\ final_rating' = [final_rating EXCEPT ![r] = 0]
    /\ ConcSetCtx(r, DirectWrite(ConcCtx(r), "current_answer" :> GeneratedAnswer(1)))
    /\ pc' = [pc EXCEPT ![r] = "star_critique"]
    /\ calls' = Append(calls, ConcCall(r, "star_generator"))

\* lines 277-460
ConcCritiqueReturns(r) ==
    /\ pc[r] = "star_critique"
    /\ \E fb \in {DictFeedback("{rating:4.8}"), DictFeedback("{rating:3.0}")} :
          LET c0 == DirectWrite(ConcCtx(r), "critique_feedback" :> fb)
              parsed == ParseCritique(fb)
              c1 == RecordIteration(c0, iteration[r], parsed)
          IN /\ final_rating' = [final_rating EXCEPT ![r] = parsed.rating]
             /\ IF ThresholdMet(parsed.rating, rating_threshold)
                THEN /\ ConcSetCtx(r, AfterLoop(CompleteHighRating(c1, iteration[r], parsed.rating),
                                                iteration[r], parsed.rating))
                     /\ pc' = [pc EXCEPT ![r] = "output_retriever"]
                     /\ UNCHANGED iteration
                ELSE /\ iteration' = [iteration EXCEPT ![r] = @ + 1]
                     /\ ConcSetCtx(r, Update(c1, "current_iteration" :> iteration[r] + 1))
                     /\ pc' = [pc EXCEPT ![r] = "star_refiner"]
    /\ calls' = Append(calls, ConcCall(r, "star_critique"))

\* lines 454-460 and 247, 479-514
ConcRefinerReturns(r) ==
    /\ pc[r] = "star_refiner"
    /\ LET ctx == DirectWrite(ConcCtx(r), "current_answer" :> GeneratedAnswer(iteration[r]))
       IN IF LoopContinues(iteration[r], max_iterations)
          THEN ConcSetCtx(r, ctx) /\ pc' = [pc EXCEPT ![r] = "star_critique"]
          ELSE /\ ConcSetCtx(r, AfterLoop(ctx, iteration[r], final_rating[r]))
               /\ pc' = [pc EXCEPT ![r] = "output_retriever"]
    /\ calls' = Append(calls, ConcCall(r, "star_refiner"))
    /\ UNCHANGED <<iteration, final_rating>>

\* lines 507-528
ConcOutputRetrieverReturns(r) ==
    /\ pc[r] = "output_retriever"
    /\ ConcSetCtx(r, Update(StoreOutput(ConcCtx(r)), "timing_data" :> "final"))
    /\ pc' = [pc EXCEPT ![r] = "done"]
    /\ calls' = Append(calls, ConcCall(r, "output_retriever"))
    /\ UNCHANGED <<iteration, final_rating>>

\* one of the two requests takes its next step; the configuration of the
\* single root_agent is not changed by any of them
ConcNext ==
    /\ \E r \in Requesters :
           \/ ConcManageSession(r)
           \/ ConcStartRun(r)
           \/ ConcInitializeAgentReturns(r)
           \/ ConcInputCollectorReturns(r)
           \/ ConcGeneratorReturns(r)
           \/ ConcCritiqueReturns(r)
           \/ ConcRefinerReturns(r)
           \/ ConcOutputRetrieverReturns(r)
    /\ UNCHANGED <<state_delta, has_state_delta, rating_threshold, max_iterations,
                   final_status_writes>>

ConcSpec == ConcInit /\ [][ConcNext]_vars

\* ------------------------------------------------------------ observation
\* the ledger
Ledger == Get(state, "full_iteration_history", <<>>)

\* the value the orchestrator wrote last for a key: the pending state_delta
\* on that path, session state otherwise
Written(key) ==
    IF has_state_delta THEN Get(state_delta, key, NoValue) ELSE Get(state, key, NoValue)

Steps == {"star_generator", "star_critique", "star_refiner"}

Count(agent) == Cardinality({j \in 1..Len(calls) : calls[j].agent = agent})

Returned(agent) ==
    Cardinality({j \in 1..Len(calls) : calls[j].agent = agent /\ calls[j].outcome = "returned"})

\* Refine calls issued so far, the one in flight included
RefineIssued == Count("star_refiner") + (IF pc = "star_refiner" THEN 1 ELSE 0)

NoCallRaised == \A j \in 1..Len(calls) : calls[j].outcome = "returned"

Raised(agent) == \E j \in 1..Len(calls) : calls[j].agent = agent /\ calls[j].outcome = "raised"

\* the run is over on the normal path: the orchestrator hands over to the
\* output retriever, or (direct writes) has returned
CompletedNormally ==
    \/ pc = "output_retriever"
    \/ /\ pc = "done"
       /\ ~has_state_delta
       /\ NoCallRaised
       /\ Returned("star_generator") = 1

AllRatingsBelowThreshold == \A i \in 1..Len(Ledger) : Ledger[i].rating < rating_threshold

\* ----------------------------------------------------------------- claims
\* C1: in every state during and after a run the ledger is numbered
\* 1, 2, 3, ...: entry i (counting from 1) has iteration_number i, so there
\* are no gaps and no duplicates
C1_MonotonicNumbering ==
    \A i \in 1..Len(Ledger) : Ledger[i].iteration_number = i

\* a run on a session that held an earlier ledger has recorded three iterations
C1_Witness ==
    /\ pc = "done"
    /\ Len(Ledger) = 3
    /\ Returned("star_critique") = 3

\* C2: a critique rating at or above the threshold ends the run with
\* COMPLETED_HIGH_RATING whatever budget is left, also on the last allowed
\* iteration: the entry is the last one, no further step is started, and the
\* status handed to the output retriever is COMPLETED_HIGH_RATING
C2_ThresholdPrecedence ==
    \A i \in 1..Len(Ledger) :
        (pc # "not_started" /\ Ledger[i].rating >= rating_threshold) =>
            /\ i = Len(Ledger)
            /\ pc \in {"output_retriever", "done", "raised"}
            /\ Returned("star_critique") = i
            /\ (pc = "output_retriever" \/ ~has_state_delta) =>
                   Written("final_status") = "COMPLETED_HIGH_RATING"

\* the threshold is met on the last allowed iteration
C2_Witness ==
    /\ pc = "output_retriever"
    /\ max_iterations = 2
    /\ iteration = max_iterations
    /\ Len(Ledger) = 2
    /\ Ledger[2].rating = rating_threshold
    /\ Written("final_status") = "COMPLETED_HIGH_RATING"

\* C3: a run that passes input validation, in which no step raises and every
\* rating stays below the threshold, makes exactly max_iterations Critique
\* calls and ends with COMPLETED_MAX_ITERATIONS
C3_IterationCap ==
    (CompletedNormally /\ AllRatingsBelowThreshold) =>
        /\ Count("star_critique") = max_iterations
        /\ Len(Ledger) = max_iterations
        /\ Written("final_status") = "COMPLETED_MAX_ITERATIONS"

\* three critiques below the threshold with max_iterations = 3
C3_Witness ==
    /\ pc = "done"
    /\ ~has_state_delta
    /\ max_iterations = 3
    /\ Count("star_critique") = 3
    /\ AllRatingsBelowThreshold
    /\ Written("final_status") = "COMPLETED_MAX_ITERATIONS"

\* the Generate / Critique / Refine calls completed so far, in order
StepCalls == SelectSeq(calls, LAMBDA c : c.agent \in Steps)

\* C4: every Refine call is followed by a Critique call before the run
\* finalizes, and a completed run makes exactly one Refine call fewer than
\* Critique calls
C4_EveryRefineIsCritiqued ==
    (pc = "output_retriever" /\ Count("star_critique") > 0) =>
        /\ StepCalls[Len(StepCalls)].agent = "star_critique"
        /\ Count("star_refiner") = Count("star_critique") - 1

RequiredInputAbsent ==
    \E k \in {"role", "industry", "question"} : k \notin DOMAIN state \/ state[k] = ""

LastCall == calls[Len(calls)]

\* the run is handling the failure of a Critique or Refine call
LoopStepFailed ==
    \E j \in 1..Len(calls) :
        calls[j].agent \in {"star_critique", "star_refiner"} /\ calls[j].outcome = "raised"

\* C7: when a Critique or Refine call raises, the status written is
\* ERROR_AGENT_PROCESSING, and the ledger entries that existed before the
\* failing call are all still there, unchanged, from then on
C7_LoopStepFailureKeepsLedger ==
    [][ /\ (pc \in {"star_critique", "star_refiner"} /\ pc' = "output_retriever_error") =>
              /\ Ledger' = Ledger
              /\ Written("final_status")' = "ERROR_AGENT_PROCESSING"
        /\ LoopStepFailed =>
              /\ Ledger' = Ledger
              /\ Written("final_status")' = "ERROR_AGENT_PROCESSING" ]_vars

\* the refiner raised after two recorded iterations and the run has returned
C7_Witness ==
    /\ pc = "done"
    /\ Raised("star_refiner")
    /\ Len(Ledger) = 2
    /\ Written("final_status") = "ERROR_AGENT_PROCESSING"

\* C8: when the Generate call raises, the status is ERROR_AGENT_PROCESSING,
\* the error message carries the text of the exception, no Critique or Refine
\* call is made and the ledger stays empty
C8_GeneratorFailure ==
    \A j \in 1..Len(calls) :
        (calls[j].agent = "star_generator" /\ calls[j].outcome = "raised") =>
            /\ Written("final_status") = "ERROR_AGENT_PROCESSING"
            /\ calls[j].error \in {Written("error_message")[n] : n \in 1..Len(Written("error_message"))}
            /\ Count("star_critique") = 0
            /\ Count("star_refiner") = 0
            /\ pc \in {"output_retriever_error", "done", "raised"}
            /\ Len(Ledger) = 0

\* the generator raised with a quota error and the run has returned
C8_Witness ==
    /\ pc = "done"
    /\ Raised("star_generator")
    /\ Written("error_message") = <<"Star generator failed: ", "quota exceeded">>

MalformedCritique(fb) ==
    /\ fb.type = "str"
    /\ \E n \in 1..Len(fb.toks) : fb.toks[n] \in MalformedDocs

\* C10: when the Critique output cannot be parsed as JSON, no exception
\* leaves the run, an entry with rating 0.0 is appended for that iteration,
\* and the run goes on to Refine
C10_MalformedCritique ==
    ( /\ calls # <<>>
      /\ LastCall.agent = "star_critique"
      /\ LastCall.outcome = "returned"
      /\ MalformedCritique(Get(state, "critique_feedback", NoFeedback)) ) =>
        /\ pc = "star_refiner"
        /\ Len(Ledger) = Returned("star_critique")
        /\ Ledger[Len(Ledger)].rating = 0
        /\ Ledger[Len(Ledger)].iteration_number = iteration - 1
        /\ Ledger[Len(Ledger)].critique.kind = "JSONDecodeError"
        /\ Written("final_status") \notin {"ERROR_AGENT_PROCESSING", "ERROR_INPUT_VALIDATION",
                                           "COMPLETED_HIGH_RATING"}

\* the critique of the last allowed iteration is an unclosed fenced block
\* with a malformed body, and the refiner has been started
C10_Witness ==
    /\ pc = "star_refiner"
    /\ max_iterations = 2
    /\ Len(Ledger) = 2
    /\ Get(state, "critique_feedback", NoFeedback)
         = StrFeedback(<<FENCE, JSONTAG, NL, "{rating:4.2,suggestions:[oops", NL>>)
    /\ Ledger[2].rating = 0

\* the critique agent left a string under critique_feedback and has just returned
CritiqueTextJustProcessed ==
    /\ calls # <<>>
    /\ LastCall.agent = "star_critique"
    /\ LastCall.outcome = "returned"
    /\ Get(state, "critique_feedback", NoFeedback).type = "str"

\* C11: whatever string the Critique step leaves in session state, the
\* orchestrator's critique processing completes without an exception
\* leaving the run
C11_ParserTotality ==
    CritiqueTextJustProcessed => pc # "raised"

\* C12: every rating stored in a ledger entry, which is the rating compared
\* with the threshold, lies in [0.0, 5.0]; an out-of-range or non-numeric
\* rating is recorded as 0.0 and so never meets the threshold
C12_RatingInRange ==
    pc # "not_started" =>
        /\ \A i \in 1..Len(Ledger) : Ledger[i].rating \in RatingScale
        /\ final_rating \in RatingScale
        /\ Written("final_status") = "COMPLETED_HIGH_RATING" =>
               \E i \in 1..Len(Ledger) :
                   /\ Ledger[i].critique.kind \in {"parsed", "dict"}
                   /\ DocRatingValue(Ledger[i].critique.doc).val \in RatingScale

\* the output retriever has produced the output of this run
OutputProduced == "enhanced_agent_output" \in DOMAIN state

Output == state["enhanced_agent_output"]

MaxLedgerRating == Maximum({Ledger[i].rating : i \in 1..Len(Ledger)})

\* C13: the final output's answer and rating are those of the highest-rated
\* ledger entry of the run (the answer critiqued in iteration i is the i-th
\* answer produced), not the last answer or the last rating; with an empty
\* ledger the answer is the placeholder and the rating 0.0
C13_FinalOutputIsHighestRated ==
    (pc = "done" /\ OutputProduced) =>
        IF Ledger = <<>>
        THEN /\ FinalStarAnswer(state) = NoFinalAnswer
             /\ final_rating = 0
        ELSE /\ \E i \in 1..Len(Ledger) :
                   /\ Ledger[i].rating = MaxLedgerRating
                   /\ FinalStarAnswer(state) = GeneratedAnswer(i)
             /\ final_rating = MaxLedgerRating

\* C14: the history of the final output holds every ledger entry recorded
\* during the run, in order, whatever the final status
C14_HistoryHoldsLedger ==
    (pc = "done" /\ OutputProduced) =>
        /\ Len(Output.interaction_history) = Len(Ledger)
        /\ \A i \in 1..Len(Ledger) :
               /\ Output.interaction_history[i].iteration_id = Ledger[i].iteration_number
               /\ Output.interaction_history[i].critique_details.rating
                      = NumberRating(Ledger[i].rating)

\* C15: every run that ends in a terminal status has produced a complete
\* output: it is there, it reports a terminal status, its answer is never
\* null, and when the run ended in an error its error_message is populated
C15_FullyFormedPayload ==
    pc = "done" =>
        /\ OutputProduced
        /\ Output.final_status \in TerminalStatuses
        /\ FinalStarAnswer(state) # NoValue
        /\ Raised("star_generator") \/ Raised("star_critique") \/ Raised("star_refiner")
             \/ StepCalls = <<>> =>
               /\ Output.final_status \in ErrorStatuses
               /\ Output.error_message # NoMessage

\* output retriever calls started so far, the one in flight included
RetrieverInvocations ==
    Count("output_retriever")
      + (IF pc \in {"output_retriever", "output_retriever_error"} THEN 1 ELSE 0)

\* the run is over and none of its sub-agent calls failed
RunOverWithoutFailedCall ==
    /\ pc \in {"done", "raised"}
    /\ \A j \in 1..Len(calls) : calls[j].outcome = "returned"

\* C16: in every run a terminal final_status is assigned exactly once, and
\* before the output retriever is invoked; the output retriever is invoked
\* exactly once, and no Generate, Critique or Refine call follows it
C16_FinalizedOnceBeforeRetriever ==
    /\ final_status_writes <= 1
    /\ RetrieverInvocations <= 1
    /\ RetrieverInvocations = 1 => final_status_writes = 1
    /\ pc \in {"output_retriever", "output_retriever_error"} =>
           Written("final_status") \in TerminalStatuses
    /\ RunOverWithoutFailedCall => (RetrieverInvocations = 1 /\ final_status_writes = 1)
    /\ \A j \in 1..Len(calls) : calls[j].agent = "output_retriever" => j = Len(calls)
    /\ RetrieverInvocations = 1 => pc \notin Steps

\* C18: with max_iterations = 0 a run in which nothing raises calls Generate
\* once, performs exactly one Critique on the initial answer, calls no
\* Refine, and ends with COMPLETED_MAX_ITERATIONS
C18_ZeroIterations ==
    (max_iterations = 0 /\ pc = "output_retriever") =>
        /\ Count("star_generator") = 1
        /\ Count("star_critique") = 1
        /\ Count("star_refiner") = 0
        /\ Written("final_status") = "COMPLETED_MAX_ITERATIONS"

RunFailed ==
    \/ Raised("star_generator")
    \/ Raised("star_critique")
    \/ Raised("star_refiner")
    \/ StepCalls = <<>>

\* C20: at the end of a run on a session that served an earlier request,
\* the highest_rating, final_status and error_message in the session are
\* those of this run alone: highest_rating is the maximum rating of this
\* run's ledger, and an error_message or error status is there only when
\* this run failed
C20_NothingSurvivesFromEarlierRequest ==
    pc = "done" =>
        /\ "highest_rating" \in DOMAIN state =>
               state["highest_rating"] = (IF Ledger = <<>> THEN 0 ELSE MaxLedgerRating)
        /\ "error_message" \in DOMAIN state => RunFailed
        /\ state["final_status"] \in ErrorStatuses => RunFailed

\* the entries of the tools' iterations list that carry a numeric rating
RatedIterations ==
    LET its == Get(state, "iterations", <<>>)
    IN {i \in 1..Len(its) : its[i].rating.kind = "number"}

\* those among them that no other one outrates
BestRatedIterations ==
    LET its == Get(state, "iterations", <<>>)
    IN {i \in RatedIterations : \A j \in RatedIterations : its[j].rating.val <= its[i].rating.val}

\* C17: when several tracked iterations share the highest rating (and that
\* rating is the highest_rating on record), highest_rated_iteration names
\* the latest of them.
C17_TiesBrokenByLatest ==
    LET its == Get(state, "iterations", <<>>)
    IN (/\ pc = "tools"
        /\ Cardinality(BestRatedIterations) >= 2
        /\ "highest_rated_iteration" \in DOMAIN state
        /\ \A i \in BestRatedIterations : its[i].rating.val = Get(state, "highest_rating", 0))
       => state["highest_rated_iteration"] =
              Maximum({its[i].iteration : i \in BestRatedIterations})

\* C28: every run terminates: it never makes more than max_iterations
\* Critique calls or more than max_iterations Refine calls, a step call that
\* raised is never followed by another step call, and eventually the output
\* retriever has been invoked and the run is over
C28_RunTerminates ==
    /\ [](/\ Count("star_critique") <= max_iterations
          /\ Count("star_refiner") <= max_iterations
          /\ \A j \in 1..Len(StepCalls) :
                 StepCalls[j].outcome = "raised" => j = Len(StepCalls))
    /\ <>(pc \in {"done", "raised"} /\ RetrieverInvocations = 1)

\* Critique steps completed so far: star_critique calls that returned and
\* whose result the orchestrator finished processing (a step cut short by an
\* exception of the processing itself has not completed)
CompletedCritiqueSteps ==
    Returned("star_critique")
      - (IF /\ pc = "raised"
            /\ calls # <<>>
            /\ calls[Len(calls)] = Call("star_critique", "returned", NoValue)
         THEN 1 ELSE 0)

C30_StatusFollowsConfiguredThreshold ==
    (/\ pc = "tools"
     /\ calls # <<>>
     /\ calls[Len(calls)] = ToolCall("finalize_agent_output", "returned")) =>
        state["final_status"] =
            (IF state["final_rating"] >= rating_threshold
             THEN "COMPLETED_HIGH_RATING" ELSE "COMPLETED_MAX_ITERATIONS")

\* the tools' list of iteration records
Iterations == Get(state, "iterations", <<>>)

\* C25: an iteration record that is in the history with its critique is
\* never changed: whatever tool runs next, the record still in that
\* position has the same answer, critique and rating
C25_RecordsImmutable ==
    [][pc = "tools" =>
          \A i \in 1..Len(Iterations) :
              (Iterations[i].critique.kind # "none" /\ i <= Len(Iterations')) =>
                  Iterations'[i] = Iterations[i]]_vars

\* C26: fence stripping is idempotent: applying the fence-stripping utility
\* to its own result gives that result again, for every text
C26_FenceStrippingIdempotent ==
    pc = "cleaned_twice" => state.cleaned_again = state.cleaned

\* C27: parsing the JSON serialization of a valid STAR answer gives the
\* answer back, and the answer append_star_response records for the
\* iteration has exactly the four fields, with the values of that answer
C27_RoundTrip ==
    pc = "answer_recorded" =>
        /\ state.current_answer = state.a
        /\ DOMAIN state.iterations[1].answer = StarFields
        /\ \A f \in StarFields : state.iterations[1].answer[f] = state.a[f]

\* the role, industry and question of a record, in that order
RequestTexts(record) == <<record["role"], record["industry"], record["question"]>>

\* pattern in text
Contains(text, pattern) ==
    \E i \in 1..(Len(text) - Len(pattern) + 1) :
        SubSeq(text, i, i + Len(pattern) - 1) = pattern

\* some listed dangerous pattern occurs in the text
HasDangerousPattern(text) ==
    \E k \in 1..Len(DangerousPatterns) : Contains(text, DangerousPatterns[k])

\* C23: the agent only ever runs on a request that satisfies the Request
\* invariants, a request that fails validation is rejected without any
\* agent run, and the record stored in the session after sanitization still
\* satisfies the invariants
C23_RequestInvariants ==
    /\ (pc \notin {"request_received", "responded"} \/ "run" \in DOMAIN state) =>
           ValidRequest(state["request"])
    /\ ~ValidRequest(state["request"]) =>
           ("session" \notin DOMAIN state /\ "run" \notin DOMAIN state)
    /\ "session" \in DOMAIN state => ValidRequest(state["session"])

\* C24: the role, industry and question handed to the agent, in the session
\* state and in the user message, hold none of the dangerous patterns
C24_SanitizedBeforeLLM ==
    "message_to_agent" \in DOMAIN state =>
        /\ \A i \in 1..3 : ~HasDangerousPattern(RequestTexts(state["session"])[i])
        /\ ~HasDangerousPattern(state["message_to_agent"])

\* C22: the response carries the terminal status of the run: the COMPLETED
\* statuses give HTTP 200, ERROR_INPUT_VALIDATION gives 4xx and
\* ERROR_AGENT_PROCESSING gives 5xx, each with that status (and, for the
\* errors, the run's error_message) in the response metadata
C22_StatusMappedOntoResponse ==
    (/\ pc = "responded"
     /\ "run" \in DOMAIN state
     /\ state["run"].kind = "final_json") =>
        LET final_status == state["run"].final_status
            response == state["response"]
        IN /\ response.body.metadata.status = final_status
           /\ final_status \in {"COMPLETED_HIGH_RATING", "COMPLETED_MAX_ITERATIONS"} =>
                  response.http_status = 200
           /\ final_status = "ERROR_INPUT_VALIDATION" => response.http_status \in 400..499
           /\ final_status = "ERROR_AGENT_PROCESSING" => response.http_status \in 500..599
           /\ final_status \in ErrorStatuses =>
                  response.body.metadata.error_message = state["run"].output["error_message"]

\* C21: two requests in flight never touch each other's ledger or workflow
\* state: while a request is in flight, the ledger of its session holds
\* exactly one entry per critique step that request completed, numbered 1, 2,
\* ... in order, the session's question is the one that request brought, and
\* final_status is IN_PROGRESS until that run wrote its completion status
C21_ConcurrentRequestsIsolated ==
    \A r \in Requesters :
        LET st == state.sessions[state.agent_session_id[r]]
            ledger == Get(st, "full_iteration_history", <<>>)
            critiques == Cardinality({j \in 1..Len(calls) :
                            calls[j].request = r /\ calls[j].agent = "star_critique"})
        IN /\ pc[r] \notin {"request_received", "done"} =>
                 /\ st["question"] = ConcRequestDetails(r)["question"]
                 /\ (pc[r] = "output_retriever") = (st["final_status"] # "IN_PROGRESS")
           /\ pc[r] \notin {"request_received", "not_started", "done"} =>
                 /\ Len(ledger) = critiques
                 /\ \A j \in 1..Len(ledger) : ledger[j].iteration_number = j

\* retrieve_final_output_from_state has just returned
JustRetrieved ==
    /\ pc = "tools"
    /\ calls # <<>>
    /\ calls[Len(calls)] = ToolCall("retrieve_final_output_from_state", "returned")

\* the history is ordered by non-decreasing iteration_id, and each of its
\* records is that of an entry of its: same number, the entry's answer when
\* it has one, the entry's rating when it has a critique
HistoryRendersEntries(history, its) ==
    /\ Len(history) = Len(its)
    /\ \A j \in 1..(Len(history) - 1) : history[j].iteration_id <= history[j + 1].iteration_id
    /\ \A j \in 1..Len(history) :
           \E i \in 1..Len(its) :
               /\ history[j].iteration_id = its[i].iteration
               /\ its[i].answer # NoValue => history[j].star_response = its[i].answer
               /\ its[i].critique.kind # "none" =>
                      history[j].critique_details.rating = its[i].critique.rating

RespectsResponseSchema(r) ==
    /\ "metadata" \in DOMAIN r
    /\ "status" \in DOMAIN r["metadata"]
    /\ "highest_rating" \in DOMAIN r["metadata"] => r["metadata"].highest_rating.val \in 0..50
    /\ ("feedback" \in DOMAIN r /\ r["feedback"] # <<>>) =>
           ("rating" \in DOMAIN r["feedback"] /\ r["feedback"].rating \in 0..50)
    /\ "history" \in DOMAIN r =>
           \A j \in 1..Len(r["history"]) :
               r["history"][j].iteration >= 1 /\ r["history"][j].critique.rating \in 0..50

\* C32: validate_response always returns a response with the four
\* top-level keys: the validated data when the response satisfies the
\* schema, and otherwise a fallback with star_answer None, feedback None, an
\* empty history and the original metadata.status when there is one,
\* ERROR_RESPONSE_VALIDATION when there is none
C32_FallbackOnSchemaViolation ==
    pc = "response_validated" =>
        LET r == state.response_data
            v == state.validated_response
        IN /\ DOMAIN v = {"star_answer", "feedback", "history", "metadata"}
           /\ IF RespectsResponseSchema(r)
              THEN /\ RespectsResponseSchema(v)
                   /\ \A k \in {"star_answer", "feedback", "history"} : v[k] = Get(r, k, <<>>)
                   /\ v["metadata"].status = r["metadata"].status
              ELSE /\ v["star_answer"] = <<>>
                   /\ v["feedback"] = <<>>
                   /\ v["history"] = <<>>
                   /\ v["metadata"].status =
                          (IF "metadata" \in DOMAIN r /\ "status" \in DOMAIN r["metadata"]
                           THEN r["metadata"].status ELSE "ERROR_RESPONSE_VALIDATION")

\* a response with a rating outside the scale in its history was replaced
\* by the fallback, which kept the status
C32_Witness ==
    /\ pc = "response_validated"
    /\ DOMAIN state.response_data = {"star_answer", "feedback", "history", "metadata"}
    /\ "status" \in DOMAIN state.response_data["metadata"]
    /\ Len(state.response_data["history"]) = 2
    /\ state.response_data["metadata"].status = "ERROR_AGENT_PROCESSING"
    /\ state.validated_response["history"] = <<>>
    /\ state.validated_response["metadata"].status = "ERROR_AGENT_PROCESSING"

\* C33: format_simple_response converts the history faithfully: one item
\* per input history entry, numbered 1..n without gaps, each with the answer
\* of its own iteration and that iteration's critique rating and suggestions
C33_HistoryConvertedFaithfully ==
    (/\ pc = "responded"
     /\ "run" \in DOMAIN state
     /\ state["run"].kind = "final_json"
     /\ "history" \in DOMAIN state["run"].output
     /\ state["run"].output["rating"] \in RatingScale) =>
        LET history_list == state["run"].output["history"]
            items == state["response"].body.history
        IN /\ Len(items) = Len(history_list)
           /\ \A j \in 1..Len(items) :
                  /\ items[j].iteration = j
                  /\ items[j].star_answer = history_list[j].answer
                  /\ "critique" \in DOMAIN history_list[j] =>
                         /\ items[j].critique.rating = history_list[j].critique.rating
                         /\ items[j].critique.suggestions = history_list[j].critique.suggestions

\* C34: state 'iterations' holds at most one entry per iteration number:
\* recording an answer or a critique for a number that already exists
\* updates that entry instead of adding a second one
C34_OneEntryPerIterationNumber ==
    LET iterations == Get(state, "iterations", <<>>)
    IN \A i, j \in 1..Len(iterations) :
           iterations[i].iteration = iterations[j].iteration => i = j

\* two answers were recorded under one number and the entry, already
\* critiqued, holds the second
C34_Witness ==
    /\ pc = "tools"
    /\ Len(Get(state, "star_responses_history", <<>>)) >= 2
    /\ Len(Get(state, "iterations", <<>>)) = 1
    /\ state["iterations"][1].critique.kind # "none"
    /\ state["iterations"][1].answer = state["star_responses_history"][2]

\* the numbers of ratings the entries of iterations hold
EntryRatings(iterations) ==
    {iterations[i].rating.val : i \in {j \in 1..Len(iterations) : iterations[j].rating.kind = "number"}}

\* only initialize_history, append_star_response and append_critique ran,
\* initialize_history first
OnlyHistoryToolsRan ==
    /\ pc = "tools" /\ calls # <<>>
    /\ calls[1].agent = "initialize_history"
    /\ \A i \in 1..Len(calls) :
           calls[i].agent \in {"initialize_history", "append_star_response", "append_critique"}

\* C35: after initialize_history and any append_critique calls,
\* highest_rating is the maximum rating among the entries of iterations and
\* highest_rated_iteration is the number of an entry holding that rating
C35_HighestRatingIsMaximumOfEntries ==
    LET iterations == Get(state, "iterations", <<>>)
    IN (OnlyHistoryToolsRan /\ EntryRatings(iterations) # {}) =>
           /\ state["highest_rating"] = Maximum(EntryRatings(iterations))
           /\ \E i \in 1..Len(iterations) :
                  /\ iterations[i].iteration = state["highest_rated_iteration"]
                  /\ iterations[i].rating = NumberRating(state["highest_rating"])

\* C36: the critique and rating of an entry were produced for the answer
\* the entry holds: when a tool replaces the answer of an entry, the entry
\* does not keep the critique and rating it had for the earlier answer
C36_CritiquePairedWithItsAnswer ==
    [][pc = "tools" =>
          \A i \in 1..Len(Iterations) :
              (/\ i <= Len(Iterations')
               /\ Iterations'[i].iteration = Iterations[i].iteration
               /\ Iterations'[i].answer # Iterations[i].answer) =>
                  /\ Iterations'[i].critique = NoCritique
                  /\ Iterations'[i].rating = NoRating]_vars

\* the value is in session state or in the pending state_delta under the key
Present(key, value) ==
    \/ key \in DOMAIN state /\ state[key] = value
    \/ key \in DOMAIN state_delta /\ state_delta[key] = value

\* C37: no update of the orchestrator is lost: when the output retriever
\* starts after at least one recorded iteration, the final_status, the
\* final_rating, the highest_rating and the current_iteration it wrote last
\* are in session state or in the pending state_delta, on both update paths
C37_NoOrchestratorUpdateLost ==
    (pc \in {"output_retriever", "output_retriever_error"} /\ Ledger # <<>>) =>
        /\ \E s \in TerminalStatuses : Present("final_status", s)
        /\ pc = "output_retriever" => Present("final_rating", final_rating)
        /\ Present("highest_rating",
                   Maximum({Get(state, "highest_rating", 0), Ledger[Len(Ledger)].rating}))
        /\ Present("current_iteration", iteration)

\* C38: in the final output error_message is populated exactly when
\* final_status is an ERROR_* status: a completed run reports no
\* error_message, and a run that failed reports one
C38_ErrorMessageIffErrorStatus ==
    (pc = "done" /\ "enhanced_agent_output" \in DOMAIN state) =>
        LET output == state["enhanced_agent_output"]
        IN /\ output.error_message # NoMessage <=> output.final_status \in ErrorStatuses
           /\ RunFailed => output.error_message # NoMessage

\* the keys collect_star_inputs stores
CollectedKeys == {"role", "industry", "question", "resume", "job_description"}

====
